---- MODULE Spec2Model ----
(***************************************************************************)
(* Deposit confirmation pipeline of the ai-video-engine repository:        *)
(*   - the chain worker (poll cycle, cursor, chain_deposits upsert,        *)
(*     reconciliation sweep), and                                          *)
(*   - the payment settlement handlers (Stripe events, USDT webhook) with  *)
(*     the shared grantCredits primitive.                                  *)
(* The two halves share no state; each has its own specification.          *)
(***************************************************************************)
EXTENDS Integers, Sequences, FiniteSets, TLC

\* ------------------------------------------------------------------ bounds
\* Lowest block height the RPC reports in the model.
FirstBlock == 8
\* Number of further block heights above FirstBlock.
BlockSpan == 3
\* MIN_CONFIRMATIONS chosen for the model (the environment sets it).
minConfirmations == 2

LastBlock == FirstBlock + BlockSpan
Blocks == FirstBlock..LastBlock

\* `null` of the TypeScript source (bigint | null, missing row).
NULL == -1

\* ------------------------------------------------------- chain worker state
VARIABLES
  chain,              \* the transfer logs to the receiver that the chain holds
  startBlock,         \* config.startBlock
  workerStateTable,   \* worker_state rows: key -> [value]
  chainDepositsTable, \* chain_deposits rows, in insertion order
  isPolling,          \* the reentrancy flag of runPollCycle
  pc,                 \* the await at which pollOnce stands ("idle": none in flight)
  latestBlock,        \* pollOnce local
  fromBlock,          \* pollOnce local
  tokenIndex,         \* position of the `for (const token of trackedTokens)` loop
  logs,               \* logs of the current token still to upsert
  pendingDeposits,    \* rows selected by the sweep still to visit
  outcome,            \* the current or last cycle: "none", "running", "returned", "threw"
  thrownAt,           \* the await at which the last cycle threw, if it did
  cycleStart,         \* snapshot of cursor and deposits taken when the cycle began
  firstFromBlock,     \* fromBlock of the first cycle that computed one (history)
  scanFloor,          \* fromBlock of the cycle that first wrote the cursor (history)
  tokenEnv,           \* process.env: POLYGON_USDT_ADDRESS and POLYGON_USDC_ADDRESS
  worker,             \* the worker process: "loading", "exited", "started", "polling"
  cyclesInFlight,     \* number of pollOnce calls that have not settled
  droppedTick,        \* a timer tick returned at the guard during the cycle in flight (history)
  clock,              \* the wall clock that `new Date()` reads; it advances in RecordSpec
  sweepsRun           \* calls of refreshPendingConfirmations in the current cycle (history)

workerVars == <<chain, startBlock, workerStateTable, chainDepositsTable, isPolling, pc,
                latestBlock, fromBlock, tokenIndex, logs, pendingDeposits, outcome,
                thrownAt, cycleStart, firstFromBlock, scanFloor,
                tokenEnv, worker, cyclesInFlight, droppedTick, clock, sweepsRun>>

\* ------------------------------------------------- payment settlement state
VARIABLES
  usersTable,         \* users rows: id -> apiCredits
  paymentsTable,      \* payments rows, in insertion order; a row's id is its position
  creditLedgerTable,  \* credit_ledger rows, in insertion order
  handlers,           \* the webhook handler invocations in flight, per request slot
  endpoint,           \* the webhook route whose deliveries this behaviour follows
  seen,               \* canonical id -> the deliveries of it that ran to their end (history)
  failed,             \* canonical id -> a delivery of a settled event of it has thrown (history)
  usdtWebhookSecret,  \* env.usdtWebhookSecret
  videoTasksTable     \* video_tasks rows, in insertion order

payVars == <<usersTable, paymentsTable, creditLedgerTable, handlers, endpoint, seen, failed,
             usdtWebhookSecret, videoTasksTable>>

\* ------------------------------------------ API keys, passwords and tasks
VARIABLES
  apiKeysTable,              \* api_keys rows, in insertion order; a row's id is its position
  rotations,                 \* the apiKeyService.rotate calls in flight, per request slot
  passwordResetTokensTable,  \* password_reset_tokens rows, in insertion order
  passwordHashes,            \* users.password_hash: user id -> the hash stored
  resets,                    \* the authStore.resetPassword calls in flight, per request slot
  creates,                   \* the videoTaskService.create calls in flight, per request slot
  timers                     \* the callbacks setTimeout holds and the updates they have sent

accountVars == <<apiKeysTable, rotations, passwordResetTokensTable, passwordHashes, resets,
                 creates, timers>>

vars == <<workerVars, payVars, accountVars>>

\* The values the two address variables of the environment take in the model.
UsdtEnvValues == {"", "0xc2132d05"}
UsdcEnvValues == {" ", "0x3c499c54"}

\* value.trim() over those values.
trim(value) == IF value = " " THEN "" ELSE value

\* parseOptionalAddress: null ("null" here) for a blank value, the address otherwise.
parseOptionalAddress(value) == IF trim(value) = "" THEN "null" ELSE value

\* readOptionalEnv(key, ""): the variable's value.
polygonUsdtAddress == parseOptionalAddress(tokenEnv.POLYGON_USDT_ADDRESS)
polygonUsdcAddress == parseOptionalAddress(tokenEnv.POLYGON_USDC_ADDRESS)

\* const trackedTokens = [...(usdt ? [USDT] : []), ...(usdc ? [USDC] : [])]
trackedTokens ==
  (IF polygonUsdtAddress # "null" THEN <<"USDT">> ELSE <<>>)
    \o (IF polygonUsdcAddress # "null" THEN <<"USDC">> ELSE <<>>)

WORKER_CURSOR_KEY == "chain-worker:last-scanned-block"

\* config.chainId (default), config.receiverAddress, and the decimals of both tokens.
chainId == 137
receiverAddress == "0xreceiver"
decimals == 6

\* token.address of the tracked token with this symbol.
tokenAddress(symbol) == IF symbol = "USDT" THEN polygonUsdtAddress ELSE polygonUsdcAddress

\* Transactions of the model's chain and the transfer logs each one emits.
TxHashes == {"0xa", "0xb"}
TxLogs ==
  [t \in TxHashes |->
     IF t = "0xa" THEN {[logIndex |-> 0, token |-> "USDT"], [logIndex |-> 1, token |-> "USDC"]}
                  ELSE {[logIndex |-> 0, token |-> "USDT"]}]

\* A chain places every transaction in one block; its logs are fixed (no reorg).
ChainOf(placement) ==
  UNION {{[txHash |-> t, logIndex |-> l.logIndex, token |-> l.token,
           blockNumber |-> placement[t], amountRaw |-> 5000000,
           fromAddress |-> "0xsender", toAddress |-> receiverAddress] : l \in TxLogs[t]}
         : t \in TxHashes}

\* ------------------------------------------------------------ conversions
\* bigint.toString(): the decimal digits, most significant first.
RECURSIVE toString(_)
toString(n) == IF n < 10 THEN <<n>> ELSE Append(toString(n \div 10), n % 10)

\* BigInt(text): the value of a decimal digit string.
RECURSIVE BigInt(_)
BigInt(digits) ==
  IF Len(digits) = 0 THEN 0
  ELSE BigInt(SubSeq(digits, 1, Len(digits) - 1)) * 10 + digits[Len(digits)]

\* Number.MAX_SAFE_INTEGER is 2^53 - 1 in the source; the integers of the model
\* checker end at 2^31 - 1, which stands in for the ceiling here.
MAX_SAFE_INTEGER == 2147483647

\* 10^n
RECURSIVE pow10(_)
pow10(n) == IF n = 0 THEN 1 ELSE 10 * pow10(n - 1)

\* formatUnits(value, decimals): the integer part and the fraction's units.
formatUnits(value, places) ==
  LET unit == pow10(places)
  IN [integer |-> value \div unit, fraction |-> value % unit]

\* ------------------------------------------------------------ cursor store
getCursorBlock(table) ==
  IF WORKER_CURSOR_KEY \in DOMAIN table THEN BigInt(table[WORKER_CURSOR_KEY].value) ELSE NULL

\* Mutant: the insert has no onConflictDoUpdate, an existing row is kept.
setCursorBlockDoNothing(table, blockNumber) ==
  IF WORKER_CURSOR_KEY \in DOMAIN table
    THEN table
    ELSE table @@ (WORKER_CURSOR_KEY :> [value |-> toString(blockNumber)])

setCursorBlock(table, blockNumber) ==
  IF WORKER_CURSOR_KEY \in DOMAIN table
    THEN [table EXCEPT ![WORKER_CURSOR_KEY].value = toString(blockNumber)]
    ELSE table @@ (WORKER_CURSOR_KEY :> [value |-> toString(blockNumber)])

\* --------------------------------------------------------- deposit ledger
\* Mutant: the inclusive + 1 is missing from the upsert's count.
upsertConfirmationsExclusive(blockNumber, head) ==
  IF head >= blockNumber THEN head - blockNumber ELSE 0

\* confirmationsBigInt and its clamp (upsertDeposit).
upsertConfirmations(blockNumber, head) ==
  LET confirmationsBigInt == IF head >= blockNumber THEN head - blockNumber + 1 ELSE 0
  IN IF confirmationsBigInt > MAX_SAFE_INTEGER THEN MAX_SAFE_INTEGER ELSE confirmationsBigInt

\* Mutant: the threshold compared with > instead of >=.
statusOfStrict(confirmations) ==
  IF confirmations > minConfirmations THEN "confirmed" ELSE "pending"

statusOf(confirmations) ==
  IF confirmations >= minConfirmations THEN "confirmed" ELSE "pending"

\* Mutant: no unique index on (tx_hash, log_index), so no insert ever conflicts.
conflictsNever(row, input) == FALSE

\* The conflict target of the upsert: the unique index on (tx_hash, log_index).
conflicts(row, input) == row.txHash = input.txHash /\ row.logIndex = input.logIndex

\* The row upsertDeposit builds from its input; `now` is the clock's reading.
depositRow(input, head) ==
  LET confirmations == upsertConfirmations(input.blockNumber, head)
  IN [id |-> <<input.txHash, input.logIndex>>,
      chainId |-> chainId,
      network |-> "POLYGON",
      tokenSymbol |-> input.token,
      tokenAddress |-> tokenAddress(input.token),
      fromAddress |-> input.fromAddress,
      toAddress |-> input.toAddress,
      txHash |-> input.txHash,
      logIndex |-> input.logIndex,
      blockNumber |-> input.blockNumber,
      amountRaw |-> toString(input.amountRaw),
      amountDecimal |-> formatUnits(input.amountRaw, decimals),
      confirmations |-> confirmations,
      status |-> statusOf(confirmations),
      observedAt |-> clock,
      updatedAt |-> clock]

\* Mutant: on conflict the whole row is replaced by the new one.
upsertDepositReplace(table, input, head) ==
  IF \E i \in DOMAIN table : conflicts(table[i], input)
    THEN [i \in DOMAIN table |->
            IF conflicts(table[i], input) THEN depositRow(input, head) ELSE table[i]]
    ELSE Append(table, depositRow(input, head))

\* insert ... onConflictDoUpdate({ target: [txHash, logIndex], set: {confirmations, status, updatedAt} })
upsertDeposit(table, input, head) ==
  IF \E i \in DOMAIN table : conflicts(table[i], input)
    THEN [i \in DOMAIN table |->
            IF conflicts(table[i], input)
              THEN [table[i] EXCEPT !.confirmations = upsertConfirmations(input.blockNumber, head),
                                    !.status = statusOf(upsertConfirmations(input.blockNumber, head)),
                                    !.updatedAt = clock]
              ELSE table[i]]
    ELSE Append(table, depositRow(input, head))

\* ---------------------------------------------------- reconciliation sweep
\* The select of refreshPendingConfirmations.
selectPending(table, head) ==
  SelectSeq(table, LAMBDA row : row.status = "pending" /\ row.blockNumber <= head)

\* Mutant: the inclusive + 1 is missing.
sweepConfirmationsExclusive(blockNumber, head) == head - blockNumber

\* const confirmations = Number(latestBlock - blockNumber + 1n)
sweepConfirmations(blockNumber, head) == head - blockNumber + 1

\* Mutant: the loop has no `continue`, every selected row is written.
sweepUnchangedNever(pendingDeposit, head) == FALSE

\* `continue` when neither confirmations nor status would change.
sweepUnchanged(pendingDeposit, head) ==
  /\ sweepConfirmations(pendingDeposit.blockNumber, head) = pendingDeposit.confirmations
  /\ statusOf(sweepConfirmations(pendingDeposit.blockNumber, head)) = pendingDeposit.status

\* The loop runs without an await over the rows it skips.
RECURSIVE skipUnchanged(_, _)
skipUnchanged(rows, head) ==
  IF Len(rows) > 0 /\ sweepUnchanged(rows[1], head) THEN skipUnchanged(Tail(rows), head) ELSE rows

\* update ... set {confirmations, status, updatedAt} where id = pendingDeposit.id
sweepUpdate(table, pendingDeposit, head) ==
  [i \in DOMAIN table |->
     IF table[i].id = pendingDeposit.id
       THEN [table[i] EXCEPT !.confirmations = sweepConfirmations(pendingDeposit.blockNumber, head),
                             !.status = statusOf(sweepConfirmations(pendingDeposit.blockNumber, head)),
                             !.updatedAt = clock]
       ELSE table[i]]

\* The loop of refreshPendingConfirmations over the selected rows.
RECURSIVE sweepRows(_, _, _)
sweepRows(table, rows, head) ==
  IF Len(rows) = 0 THEN table
  ELSE IF sweepUnchanged(rows[1], head) THEN sweepRows(table, Tail(rows), head)
  ELSE sweepRows(sweepUpdate(table, rows[1], head), Tail(rows), head)

\* refreshPendingConfirmations(latestBlock), run to its end.
refreshPendingConfirmations(table, head) == sweepRows(table, selectPending(table, head), head)

\* `for (const log of logs) await upsertDeposit({...})`, run to its end.
RECURSIVE upsertBatch(_, _, _)
upsertBatch(table, batch, head) ==
  IF Len(batch) = 0 THEN table
  ELSE upsertBatch(upsertDeposit(table, batch[1], head), Tail(batch), head)

\* -------------------------------------------------------------- chain RPC
RECURSIVE sortLogs(_)
sortLogs(set) ==
  IF set = {} THEN <<>>
  ELSE LET first == CHOOSE l \in set : \A m \in set :
                      \/ l.blockNumber < m.blockNumber
                      \/ l.blockNumber = m.blockNumber /\ l.txHash = m.txHash /\ l.logIndex <= m.logIndex
                      \/ l.blockNumber = m.blockNumber /\ l.txHash # m.txHash /\ l.txHash = "0xa"
       IN <<first>> \o sortLogs(set \ {first})

\* client.getLogs({ address: token, fromBlock, toBlock, args: { to: receiver } })
getLogs(token, from, to) ==
  sortLogs({l \in chain : l.token = token /\ l.blockNumber >= from /\ l.blockNumber <= to})

\* ------------------------------------------------------------- poll cycle
\* What a cycle's start is remembered by: the cursor, the number of deposit
\* records, and the ids of the records pending and of those confirmed.
snapshot(state, deposits) ==
  [cursor |-> getCursorBlock(state),
   rows |-> Len(deposits),
   pending |-> {deposits[i].id : i \in {j \in DOMAIN deposits : deposits[j].status = "pending"}},
   confirmed |-> {deposits[i].id : i \in {j \in DOMAIN deposits : deposits[j].status = "confirmed"}}]

\* The values START_BLOCK takes in the model: unset or empty, a negative
\* numeral, and the numerals of the two lowest heights.
StartBlockEnvValues ==
  {[set |-> FALSE, negative |-> FALSE, digits |-> <<>>],
   [set |-> TRUE, negative |-> TRUE, digits |-> <<1>>],
   [set |-> TRUE, negative |-> FALSE, digits |-> toString(FirstBlock)],
   [set |-> TRUE, negative |-> FALSE, digits |-> toString(FirstBlock + 1)]}

\* readOptionalBlockEnv: null when unset or empty, null when negative, the block otherwise.
readOptionalBlockEnv(value) ==
  IF ~value.set THEN NULL
  ELSE LET parsedBlock == IF value.negative THEN 0 - BigInt(value.digits) ELSE BigInt(value.digits)
       IN IF parsedBlock < 0 THEN NULL ELSE parsedBlock

WorkerInit ==
  /\ chain \in {ChainOf(p) : p \in [TxHashes -> Blocks]}
  /\ startBlock \in {readOptionalBlockEnv(v) : v \in StartBlockEnvValues}
  /\ workerStateTable = <<>>
  /\ chainDepositsTable = <<>>
  /\ isPolling = FALSE
  /\ pc = "idle"
  /\ latestBlock = NULL
  /\ fromBlock = NULL
  /\ tokenIndex = 0
  /\ logs = <<>>
  /\ pendingDeposits = <<>>
  /\ outcome = "none"
  /\ thrownAt = "none"
  /\ cycleStart = snapshot(<<>>, <<>>)
  /\ firstFromBlock = NULL
  /\ scanFloor = NULL
  /\ tokenEnv \in [POLYGON_USDT_ADDRESS : UsdtEnvValues, POLYGON_USDC_ADDRESS : UsdcEnvValues]
  /\ worker = "loading"
  /\ cyclesInFlight = 0
  /\ droppedTick = FALSE
  /\ clock = 0
  /\ sweepsRun = 0

\* pollOnce returned: the `finally` of runPollCycle clears the flag.
finishCycle ==
  /\ pc' = "idle"
  /\ isPolling' = FALSE
  /\ cyclesInFlight' = cyclesInFlight - 1
  /\ outcome' = "returned"
  /\ thrownAt' = "none"
  /\ tokenIndex' = 0
  /\ logs' = <<>>

\* Mutant: the cursor is advanced after the first token's logs.
afterTokenFirstOnly(i) == "setCursorBlock"

\* Where the token loop goes after the logs of token number i are exhausted.
afterToken(i) == IF i < Len(trackedTokens) THEN "getLogs" ELSE "setCursorBlock"

\* Mutant: the reentrancy guard is missing.
dropsTickNever(flag) == FALSE

\* if (isPolling) return
dropsTick(flag) == flag

\* runPollCycle past its guard: the flag is set and pollOnce starts.
beginCycle ==
  /\ isPolling' = TRUE
  /\ cyclesInFlight' = cyclesInFlight + 1
  /\ droppedTick' = FALSE
  /\ sweepsRun' = 0
  /\ pc' = "getBlockNumber"
  /\ latestBlock' = NULL
  /\ fromBlock' = NULL
  /\ outcome' = "running"
  /\ thrownAt' = "none"
  /\ cycleStart' = snapshot(workerStateTable, chainDepositsTable)

\* Mutant: the empty token list is not checked at startup.
noTrackedTokensNever(tokens) == FALSE

\* if (trackedTokens.length === 0) throw
noTrackedTokens(tokens) == Len(tokens) = 0

\* The module is loaded: the token check, then the first `await runPollCycle()`.
startWorker ==
  /\ worker = "loading"
  /\ IF noTrackedTokens(trackedTokens)
       THEN /\ worker' = "exited"
            /\ UNCHANGED <<isPolling, cyclesInFlight, droppedTick, sweepsRun, pc, latestBlock,
                           fromBlock, outcome, thrownAt, cycleStart>>
       ELSE /\ worker' = "started"
            /\ beginCycle
  /\ UNCHANGED <<accountVars, payVars, clock, tokenEnv, chain, startBlock, workerStateTable, chainDepositsTable,
                 tokenIndex, logs, pendingDeposits, firstFromBlock, scanFloor>>

\* The first cycle has settled: setInterval(() => void runPollCycle(), pollIntervalMs)
installTimer ==
  /\ worker = "started"
  /\ pc = "idle"
  /\ worker' = "polling"
  /\ UNCHANGED <<accountVars, payVars, clock, sweepsRun, tokenEnv, droppedTick, chain, startBlock, workerStateTable,
                 chainDepositsTable, isPolling, cyclesInFlight, pc, latestBlock, fromBlock,
                 tokenIndex, logs, pendingDeposits, outcome, thrownAt, cycleStart,
                 firstFromBlock, scanFloor>>

\* A timer tick calls runPollCycle with no cycle in flight.
runPollCycle ==
  /\ worker = "polling"
  /\ ~dropsTick(isPolling)
  /\ beginCycle
  /\ UNCHANGED <<accountVars, payVars, clock, tokenEnv, worker, chain, startBlock, workerStateTable, chainDepositsTable,
                 tokenIndex, logs, pendingDeposits, firstFromBlock, scanFloor>>

\* A timer tick calls runPollCycle while a cycle is in flight: it returns at the guard.
tickDropped ==
  /\ worker = "polling"
  /\ dropsTick(isPolling)
  /\ droppedTick' = TRUE
  /\ UNCHANGED <<accountVars, payVars, clock, sweepsRun, tokenEnv, worker, chain, startBlock, workerStateTable,
                 chainDepositsTable, isPolling, cyclesInFlight, pc, latestBlock, fromBlock,
                 tokenIndex, logs, pendingDeposits, outcome, thrownAt, cycleStart,
                 firstFromBlock, scanFloor>>

\* const latestBlock = await client.getBlockNumber()
getBlockNumber ==
  /\ pc = "getBlockNumber"
  /\ \E head \in Blocks : latestBlock' = head
  /\ pc' = "getCursorBlock"
  /\ UNCHANGED <<accountVars, payVars, clock, sweepsRun, tokenEnv, worker, droppedTick, chain, startBlock, workerStateTable, chainDepositsTable, isPolling, cyclesInFlight, fromBlock,
                 tokenIndex, logs, pendingDeposits, outcome, thrownAt, cycleStart,
                 firstFromBlock, scanFloor>>

\* Mutant: the fromBlock > latestBlock guard is missing.
skipsScanNever(from, head) == FALSE

\* if (fromBlock > latestBlock): the scan is skipped
skipsScan(from, head) == from > head

\* Mutant: the scan restarts at the cursor block itself.
resolveFromBlockAtCursor(currentCursor, start, head) ==
  IF currentCursor # NULL THEN currentCursor
  ELSE IF start # NULL THEN start ELSE head

\* currentCursor !== null ? currentCursor + 1n : (config.startBlock ?? latestBlock)
resolveFromBlock(currentCursor, start, head) ==
  IF currentCursor # NULL THEN currentCursor + 1
  ELSE IF start # NULL THEN start ELSE head

\* const currentCursor = await getCursorBlock(); fromBlock; the fromBlock > latestBlock branch
readCursor ==
  /\ pc = "getCursorBlock"
  /\ LET currentCursor == getCursorBlock(workerStateTable)
         from == resolveFromBlock(currentCursor, startBlock, latestBlock)
     IN /\ fromBlock' = from
        /\ firstFromBlock' = IF firstFromBlock = NULL THEN from ELSE firstFromBlock
        /\ IF skipsScan(from, latestBlock)
             THEN pc' = "refreshPendingConfirmations" /\ tokenIndex' = tokenIndex
             ELSE pc' = afterToken(0) /\ tokenIndex' = 1
  /\ UNCHANGED <<accountVars, payVars, clock, sweepsRun, tokenEnv, worker, droppedTick, chain, startBlock, workerStateTable, chainDepositsTable, isPolling, cyclesInFlight, latestBlock,
                 logs, pendingDeposits, outcome, thrownAt, cycleStart, scanFloor>>

\* const logs = await client.getLogs(...) for the current token
fetchLogs ==
  /\ pc = "getLogs"
  /\ LET found == getLogs(trackedTokens[tokenIndex], fromBlock, latestBlock)
     IN /\ logs' = found
        /\ IF Len(found) > 0
             THEN pc' = "upsertDeposit" /\ tokenIndex' = tokenIndex
             ELSE pc' = afterToken(tokenIndex) /\ tokenIndex' = tokenIndex + 1
  /\ UNCHANGED <<accountVars, payVars, clock, sweepsRun, tokenEnv, worker, droppedTick, chain, startBlock, workerStateTable, chainDepositsTable, isPolling, cyclesInFlight, latestBlock,
                 fromBlock, pendingDeposits, outcome, thrownAt, cycleStart,
                 firstFromBlock, scanFloor>>

\* Mutant: the cursor is written inside the log loop, before the scan is complete.
upsertLogEager ==
  /\ pc = "upsertDeposit"
  /\ chainDepositsTable' = upsertDeposit(chainDepositsTable, Head(logs), latestBlock)
  /\ workerStateTable' = setCursorBlock(workerStateTable, latestBlock)
  /\ logs' = Tail(logs)
  /\ IF Len(logs) > 1
       THEN pc' = "upsertDeposit" /\ tokenIndex' = tokenIndex
       ELSE pc' = afterToken(tokenIndex) /\ tokenIndex' = tokenIndex + 1
  /\ UNCHANGED <<accountVars, payVars, clock, sweepsRun, tokenEnv, worker, droppedTick, chain, startBlock, isPolling, cyclesInFlight, latestBlock, fromBlock,
                 pendingDeposits, outcome, thrownAt, cycleStart,
                 firstFromBlock, scanFloor>>

\* await upsertDeposit({...log, latestBlock}) for the next log of the current token
upsertLog ==
  /\ pc = "upsertDeposit"
  /\ chainDepositsTable' = upsertDeposit(chainDepositsTable, Head(logs), latestBlock)
  /\ logs' = Tail(logs)
  /\ IF Len(logs) > 1
       THEN pc' = "upsertDeposit" /\ tokenIndex' = tokenIndex
       ELSE pc' = afterToken(tokenIndex) /\ tokenIndex' = tokenIndex + 1
  /\ UNCHANGED <<accountVars, payVars, clock, sweepsRun, tokenEnv, worker, droppedTick, chain, startBlock, workerStateTable, isPolling, cyclesInFlight, latestBlock, fromBlock,
                 pendingDeposits, outcome, thrownAt, cycleStart,
                 firstFromBlock, scanFloor>>

\* Mutant: pollOnce returns after the cursor write, without the sweep.
advanceCursorNoSweep ==
  /\ pc = "setCursorBlock"
  /\ workerStateTable' = setCursorBlock(workerStateTable, latestBlock)
  /\ scanFloor' = IF scanFloor = NULL THEN fromBlock ELSE scanFloor
  /\ finishCycle
  /\ UNCHANGED <<accountVars, payVars, clock, sweepsRun, tokenEnv, worker, droppedTick, chain, startBlock,
                 chainDepositsTable, latestBlock, fromBlock, pendingDeposits, cycleStart,
                 firstFromBlock>>

\* await setCursorBlock(latestBlock)
advanceCursor ==
  /\ pc = "setCursorBlock"
  /\ workerStateTable' = setCursorBlock(workerStateTable, latestBlock)
  /\ scanFloor' = IF scanFloor = NULL THEN fromBlock ELSE scanFloor
  /\ pc' = "refreshPendingConfirmations"
  /\ UNCHANGED <<accountVars, payVars, clock, sweepsRun, tokenEnv, worker, droppedTick, chain, startBlock, chainDepositsTable, isPolling, cyclesInFlight, latestBlock, fromBlock,
                 tokenIndex, logs, pendingDeposits, outcome, thrownAt, cycleStart,
                 firstFromBlock>>

\* refreshPendingConfirmations: the select, and the rows the loop skips before its first write
sweepSelect ==
  /\ pc = "refreshPendingConfirmations"
  /\ LET rows == skipUnchanged(selectPending(chainDepositsTable, latestBlock), latestBlock)
     IN /\ pendingDeposits' = rows
        /\ sweepsRun' = sweepsRun + 1
        /\ IF Len(rows) > 0
             THEN /\ pc' = "sweepUpdate"
                  /\ UNCHANGED <<isPolling, cyclesInFlight, outcome, thrownAt, tokenIndex, logs>>
             ELSE finishCycle
  /\ UNCHANGED <<accountVars, payVars, clock, tokenEnv, worker, droppedTick, chain, startBlock, workerStateTable, chainDepositsTable, latestBlock, fromBlock,
                 cycleStart, firstFromBlock, scanFloor>>

\* Mutant: the sweep credits the depositor's account when it writes a record.
sweepWriteGrants ==
  /\ pc = "sweepUpdate"
  /\ usersTable' = [u \in DOMAIN usersTable |-> usersTable[u] + 1]
  /\ creditLedgerTable' = Append(creditLedgerTable,
                                 [userId |-> "u1", deltaCredits |-> 1, balanceAfter |-> usersTable["u1"] + 1,
                                  reason |-> "deposit_confirmed", referenceId |-> Head(pendingDeposits).id,
                                  metadataJson |-> <<>>])
  /\ chainDepositsTable' = sweepUpdate(chainDepositsTable, Head(pendingDeposits), latestBlock)
  /\ LET rows == skipUnchanged(Tail(pendingDeposits), latestBlock)
     IN /\ pendingDeposits' = rows
        /\ IF Len(rows) > 0
             THEN /\ pc' = "sweepUpdate"
                  /\ UNCHANGED <<isPolling, cyclesInFlight, outcome, thrownAt, tokenIndex, logs>>
             ELSE finishCycle
  /\ UNCHANGED <<accountVars, paymentsTable, handlers, endpoint, seen, failed, usdtWebhookSecret,
                 videoTasksTable, clock, sweepsRun, tokenEnv, worker, droppedTick, chain, startBlock, workerStateTable, latestBlock, fromBlock,
                 cycleStart, firstFromBlock, scanFloor>>

\* refreshPendingConfirmations: one update of the loop, and the rows skipped after it
sweepWrite ==
  /\ pc = "sweepUpdate"
  /\ chainDepositsTable' = sweepUpdate(chainDepositsTable, Head(pendingDeposits), latestBlock)
  /\ LET rows == skipUnchanged(Tail(pendingDeposits), latestBlock)
     IN /\ pendingDeposits' = rows
        /\ IF Len(rows) > 0
             THEN /\ pc' = "sweepUpdate"
                  /\ UNCHANGED <<isPolling, cyclesInFlight, outcome, thrownAt, tokenIndex, logs>>
             ELSE finishCycle
  /\ UNCHANGED <<accountVars, payVars, clock, sweepsRun, tokenEnv, worker, droppedTick, chain, startBlock, workerStateTable, latestBlock, fromBlock,
                 cycleStart, firstFromBlock, scanFloor>>

\* Mutant: runPollCycle has no `finally`, a throw leaves the flag set.
pollThrowsNoFinally ==
  /\ pc # "idle"
  /\ pc' = "idle"
  /\ cyclesInFlight' = cyclesInFlight - 1
  /\ outcome' = "threw"
  /\ thrownAt' = pc
  /\ tokenIndex' = 0
  /\ logs' = <<>>
  /\ pendingDeposits' = <<>>
  /\ UNCHANGED <<accountVars, payVars, clock, sweepsRun, tokenEnv, worker, droppedTick, chain, startBlock, workerStateTable,
                 chainDepositsTable, isPolling, latestBlock, fromBlock,
                 cycleStart, firstFromBlock, scanFloor>>

\* Any await of pollOnce rejects (RPC error, storage error): the statement has no
\* effect, runPollCycle logs the error and its `finally` clears the flag.
pollThrows ==
  /\ pc # "idle"
  /\ pc' = "idle"
  /\ isPolling' = FALSE
  /\ cyclesInFlight' = cyclesInFlight - 1
  /\ outcome' = "threw"
  /\ thrownAt' = pc
  /\ tokenIndex' = 0
  /\ logs' = <<>>
  /\ pendingDeposits' = <<>>
  /\ UNCHANGED <<accountVars, payVars, clock, sweepsRun, tokenEnv, worker, droppedTick, chain, startBlock, workerStateTable, chainDepositsTable, latestBlock, fromBlock,
                 cycleStart, firstFromBlock, scanFloor>>

WorkerNext ==
  \/ startWorker
  \/ installTimer
  \/ runPollCycle
  \/ getBlockNumber
  \/ readCursor
  \/ fetchLogs
  \/ upsertLog
  \/ advanceCursor
  \/ sweepSelect
  \/ sweepWrite
  \/ pollThrows

\* =================================================== payment settlement
\* Deliveries of one canonical payment id the model follows to completion.
MaxDeliveries == 2

\* env.usdtConfirmationsRequired (default) and env.initialUserCredits (default).
usdtConfirmationsRequired == 2
initialUserCredits == 300


\* Request slots: two webhook requests can be in flight at once.
Slots == {"r1", "r2"}

\* Number(metadata.creditsToBuy ?? "0") over the metadata strings of the model:
\* a number, Infinity (infinite = TRUE), or NaN (nan = TRUE) for a string that
\* is no numeral.
Number(text) ==
  CASE text = "2" -> [nan |-> FALSE, infinite |-> FALSE, value |-> 2]
    [] text = "0" -> [nan |-> FALSE, infinite |-> FALSE, value |-> 0]
    [] text = "-1" -> [nan |-> FALSE, infinite |-> FALSE, value |-> 0 - 1]
    [] text = "Infinity" -> [nan |-> FALSE, infinite |-> TRUE, value |-> 0]
    [] OTHER -> [nan |-> TRUE, infinite |-> FALSE, value |-> 0]

isFinite(n) == ~n.nan /\ ~n.infinite

StripeEvents ==
  {[kind |-> "stripe", type |-> "checkout.session.completed", id |-> "cs_1", userId |-> "u1", creditsToBuy |-> "2", amountMinor |-> 200, currency |-> "usd"],
   [kind |-> "stripe", type |-> "checkout.session.completed", id |-> "cs_1", userId |-> "", creditsToBuy |-> "2", amountMinor |-> 200, currency |-> "usd"],
   [kind |-> "stripe", type |-> "checkout.session.completed", id |-> "cs_1", userId |-> "u1", creditsToBuy |-> "abc", amountMinor |-> 200, currency |-> "usd"],
   [kind |-> "stripe", type |-> "payment_intent.succeeded", id |-> "pi_1", userId |-> "u1", creditsToBuy |-> "2", amountMinor |-> 200, currency |-> "usd"],
   [kind |-> "stripe", type |-> "payment_intent.succeeded", id |-> "pi_1", userId |-> "u1", creditsToBuy |-> "0", amountMinor |-> 200, currency |-> "usd"],
   [kind |-> "stripe", type |-> "payment_intent.succeeded", id |-> "pi_1", userId |-> "u1", creditsToBuy |-> "-1", amountMinor |-> 200, currency |-> "usd"],
   [kind |-> "stripe", type |-> "payment_intent.succeeded", id |-> "pi_1", userId |-> "u1", creditsToBuy |-> "Infinity", amountMinor |-> 200, currency |-> "usd"],
   [kind |-> "stripe", type |-> "charge.refunded", id |-> "ch_1", userId |-> "u1", creditsToBuy |-> "2", amountMinor |-> 200, currency |-> "usd"]}

\* Webhook payloads of one transaction. Of 500 minor units: pending and failed
\* with too few confirmations, confirmed with too few and with enough. Of 50
\* minor units (below one credit): pending, and confirmed with enough. And a
\* settled payload that names another user, amount, currency and network for
\* the same transaction.
UsdtPayloads ==
  {[kind |-> "usdt", transactionId |-> "tx1", userId |-> "u1", amountMinor |-> 500,
    currency |-> "USDT", network |-> "TRON", status |-> sc[1], confirmations |-> sc[2]] :
     sc \in {<<"pending", usdtConfirmationsRequired - 1>>,
             <<"failed", usdtConfirmationsRequired - 1>>,
             <<"confirmed", usdtConfirmationsRequired - 1>>,
             <<"confirmed", usdtConfirmationsRequired>>}}
  \cup
  {[kind |-> "usdt", transactionId |-> "tx1", userId |-> "u1", amountMinor |-> 50,
    currency |-> "USDT", network |-> "TRON", status |-> sc[1], confirmations |-> sc[2]] :
     sc \in {<<"pending", usdtConfirmationsRequired - 1>>,
             <<"confirmed", usdtConfirmationsRequired>>}}
  \cup
  {[kind |-> "usdt", transactionId |-> "tx1", userId |-> "u2", amountMinor |-> 700,
    currency |-> "USDC", network |-> "POLYGON", status |-> sc[1], confirmations |-> sc[2]] :
     sc \in {<<"confirmed", usdtConfirmationsRequired>>}}

Events == StripeEvents \cup UsdtPayloads

\* const providerPaymentId = `stripe_${session.id}` / `stripe_pi_${paymentIntent.id}` /
\* `usdt_${payload.transactionId}`
providerPaymentId(event) ==
  IF event.kind = "usdt" THEN "usdt_" \o event.transactionId
  ELSE IF event.type = "checkout.session.completed" THEN "stripe_" \o event.id
  ELSE "stripe_pi_" \o event.id

CanonicalIds == {"usdt_tx1", "stripe_cs_1", "stripe_pi_pi_1"}

\* event.type is one of the two handled types
handledType(event) == event.type \in {"checkout.session.completed", "payment_intent.succeeded"}

\* Mutant: only the user id is checked.
invalidMetadataUserOnly(event) == event.userId = ""

\* if (!userId || !Number.isFinite(creditsToBuy) || creditsToBuy <= 0) return
invalidMetadata(event) ==
  \/ event.userId = ""
  \/ ~isFinite(Number(event.creditsToBuy))
  \/ Number(event.creditsToBuy).value <= 0

\* Mutant: Math.round instead of Math.floor.
derivedCreditsRounded(payload) == (payload.amountMinor + 50) \div 100

\* const derivedCredits = Math.floor(payload.amountMinor / 100)
derivedCredits(payload) == payload.amountMinor \div 100

\* Mutant: the confirmation count is not consulted.
isPaymentSettledByStatus(payload) == payload.status = "confirmed"

\* const isPaymentSettled = status === "confirmed" && confirmations >= usdtConfirmationsRequired
isPaymentSettled(payload) ==
  payload.status = "confirmed" /\ payload.confirmations >= usdtConfirmationsRequired

\* const paymentStatus = isPaymentSettled ? "succeeded" : status === "failed" ? "failed" : "pending"
paymentStatus(payload) ==
  IF isPaymentSettled(payload) THEN "succeeded"
  ELSE IF payload.status = "failed" THEN "failed" ELSE "pending"

\* The credits a handled event grants.
creditsOf(event) ==
  IF event.kind = "usdt" THEN derivedCredits(event) ELSE Number(event.creditsToBuy).value

\* Whether the handler calls grantCredits after inserting the payment row.
grantsAfterInsert(event) ==
  IF event.kind = "usdt" THEN isPaymentSettled(event) /\ derivedCredits(event) > 0 ELSE TRUE

reasonOf(event) ==
  IF event.kind = "usdt" THEN "payment_usdt_confirmed"
  ELSE IF event.type = "checkout.session.completed" THEN "payment_stripe_succeeded"
  ELSE "payment_stripe_applepay_succeeded"

\* metadataJson: JSON.stringify(payload) / ({ sessionId }) / ({ paymentIntentId })
metadataOf(event) ==
  IF event.kind = "usdt" THEN event
  ELSE IF event.type = "checkout.session.completed" THEN [sessionId |-> event.id]
  ELSE [paymentIntentId |-> event.id]

\* Mutant: the select never finds a row.
existingPaymentNone(table, id) == 0

\* select().from(paymentsTable).where(eq(providerPaymentId, ...)).limit(1): the row's id, 0 if none
existingPayment(table, id) ==
  IF \E i \in DOMAIN table : table[i].providerPaymentId = id
    THEN CHOOSE i \in DOMAIN table : table[i].providerPaymentId = id
    ELSE 0

\* Mutant: the payments table has no unique index on provider_payment_id.
violatesUniqueNever(table, id) == FALSE

\* uniqueIndex("payments_provider_payment_unique").on(providerPaymentId)
violatesUnique(table, id) == \E i \in DOMAIN table : table[i].providerPaymentId = id

\* The row the handler inserts for a novel canonical id.
paymentRow(event) ==
  [providerPaymentId |-> providerPaymentId(event),
   userId |-> event.userId,
   provider |-> event.kind,
   status |-> IF event.kind = "usdt" THEN paymentStatus(event) ELSE "succeeded",
   amountMinor |-> event.amountMinor,
   currency |-> event.currency,
   creditsPurchased |-> creditsOf(event),
   rawPayloadJson |-> event,
   createdAt |-> clock,
   updatedAt |-> clock]

idleHandler == [pc |-> "idle"]

\* The awaits of the two handlers and of grantCredits.
HandlerSteps == {"select", "update", "insert", "grantUser", "grantLedger"}

inFlight(id) ==
  Cardinality({r \in Slots : handlers[r].pc \in HandlerSteps /\ providerPaymentId(handlers[r].event) = id})

\* What the history keeps of a delivery that ran to its end.
settles(event) == IF event.kind = "usdt" THEN isPaymentSettled(event) ELSE TRUE

summary(handler) ==
  [settled |-> settles(handler.event),
   credits |-> creditsOf(handler.event),
   after |-> handler.after]

\* Bun.password.hash(password): a salted hash that verifies against the password.
hashPassword(password) == [algorithm |-> "argon2id", verifies |-> password]

\* A request slot in which no call is in flight.
idleCall == [pc |-> "idle"]

\* No API key, no reset token, no call in flight and no timer pending; every
\* account has the password it signed up with.
AccountInit ==
  /\ apiKeysTable = <<>>
  /\ rotations = [s \in Slots |-> idleCall]
  /\ passwordResetTokensTable = <<>>
  /\ passwordHashes = [u \in DOMAIN usersTable |-> hashPassword("pw0")]
  /\ resets = [s \in Slots |-> idleCall]
  /\ creates = [s \in Slots |-> idleCall]
  /\ timers = {}

PayInit ==
  /\ usersTable = [u \in {"u1"} |-> initialUserCredits]
  /\ paymentsTable = <<>>
  /\ creditLedgerTable = <<>>
  /\ handlers = [r \in Slots |-> idleHandler]
  /\ endpoint \in {"/api/payments/stripe/webhook", "/api/payments/crypto/usdt/webhook"}
  /\ seen = [id \in CanonicalIds |-> <<>>]
  /\ failed = [id \in CanonicalIds |-> FALSE]
  /\ usdtWebhookSecret \in IF endpoint = "/api/payments/crypto/usdt/webhook"
                             THEN {"", "whsec_1"} ELSE {""}
  /\ videoTasksTable = <<>>
  /\ AccountInit

\* The handler of slot r returns.
returns(r) ==
  /\ handlers' = [handlers EXCEPT ![r] = idleHandler]
  /\ seen' = [seen EXCEPT ![providerPaymentId(handlers[r].event)] = Append(@, summary(handlers[r]))]

\* A webhook request reaches handleStripeEvent: for an unhandled type or
\* invalid metadata it returns at once and the route is left to answer;
\* otherwise the handler awaits the select.
handleStripeEvent(r) ==
  /\ endpoint = "/api/payments/stripe/webhook"
  /\ handlers[r].pc = "idle"
  /\ \E event \in StripeEvents :
       IF ~handledType(event) \/ invalidMetadata(event)
         THEN handlers' = [handlers EXCEPT ![r] = [pc |-> "ignored", event |-> event]]
         ELSE /\ Len(seen[providerPaymentId(event)]) + inFlight(providerPaymentId(event)) < MaxDeliveries
              /\ handlers' = [handlers EXCEPT ![r] = [pc |-> "select", event |-> event,
                                                           after |-> failed[providerPaymentId(event)]]]
  /\ UNCHANGED <<usersTable, paymentsTable, creditLedgerTable, accountVars, workerVars, endpoint, usdtWebhookSecret, videoTasksTable, failed, seen>>

\* A request body as the route reads it: text that is no JSON, the JSON text
\* `null`, or the JSON text of an object.
bodyOf(payload) == [json |-> "object", value |-> payload]
invalidBody == [json |-> "invalid"]
nullBody == [json |-> "null"]

\* createHmac("sha256", secret).update(payload, "utf8").digest("hex"): 64 hex
\* characters that depend on the secret and on the text.
hmacSha256(payload, secret) == [present |-> TRUE, length |-> 64, mac |-> <<secret, payload>>]

\* request.headers.get("x-usdt-signature") of a request without the header, and an empty header.
noSignature == [present |-> FALSE, length |-> 0, mac |-> <<>>]
emptySignature == [present |-> TRUE, length |-> 0, mac |-> <<>>]

\* The payload the malformed requests of the model are derived from.
samplePayload ==
  [kind |-> "usdt", transactionId |-> "tx1", userId |-> "u1", amountMinor |-> 500,
   currency |-> "USDT", network |-> "TRON", status |-> "confirmed",
   confirmations |-> usdtConfirmationsRequired]

RequiredFields == {"userId", "transactionId", "currency", "network"}

without(payload, field) == [f \in DOMAIN payload \ {field} |-> payload[f]]

\* The requests the USDT webhook route receives in the model: every payload
\* signed by the sender, and the sample payload with a missing, empty,
\* truncated or foreign signature, a signature of another body, a body that is
\* no JSON, the body `null`, and a body lacking one required field.
UsdtRequests ==
  {[signature |-> hmacSha256(bodyOf(p), "whsec_1"), body |-> bodyOf(p)] : p \in UsdtPayloads}
  \cup {[signature |-> sig, body |-> bodyOf(samplePayload)] :
          sig \in {noSignature, emptySignature,
                   [present |-> TRUE, length |-> 32, mac |-> <<"whsec_1", bodyOf(samplePayload)>>],
                   hmacSha256(bodyOf(samplePayload), "whsec_2"),
                   hmacSha256(invalidBody, "whsec_1")}}
  \cup {[signature |-> hmacSha256(b, "whsec_1"), body |-> b] :
          b \in {invalidBody, nullBody} \cup {bodyOf(without(samplePayload, f)) : f \in RequiredFields}}

\* Mutant: only the length of the signature is compared.
isValidHmacSignatureByLength(payload, signature, secret) ==
  hmacSha256(payload, secret).length = signature.length

\* isValidHmacSignature: equal length, then timingSafeEqual
isValidHmacSignature(payload, signature, secret) ==
  LET expected == hmacSha256(payload, secret)
  IN IF expected.length # signature.length THEN FALSE ELSE expected.mac = signature.mac

\* !payload.userId || !payload.transactionId || !payload.currency || !payload.network
missingField(payload) ==
  \E f \in RequiredFields : f \notin DOMAIN payload \/ payload[f] = ""

\* The status the route answers with before it calls the handler; 0 when it calls it.
\* `null` parses, and reading payload.userId of it throws: the server answers 500.
usdtWebhookStatus(request, secret) ==
  IF secret = "" THEN 500
  ELSE IF ~request.signature.present \/ request.signature.length = 0 THEN 400
  ELSE IF ~isValidHmacSignature(request.body, request.signature, secret) THEN 400
  ELSE IF request.body.json = "invalid" THEN 400
  ELSE IF request.body.json = "null" THEN 500
  ELSE IF missingField(request.body.value) THEN 400
  ELSE 0

\* handleUsdtPayment(payload) is called: the handler awaits the select.
handleUsdtPayment(r, request) ==
  LET payload == request.body.value
  IN /\ Len(seen[providerPaymentId(payload)]) + inFlight(providerPaymentId(payload)) < MaxDeliveries
     /\ handlers' = [handlers EXCEPT ![r] = [pc |-> "select", event |-> payload,
                                                  after |-> failed[providerPaymentId(payload)],
                                                  request |-> request]]

\* POST /api/payments/crypto/usdt/webhook: the request is answered with an error
\* status, or handleUsdtPayment is called with the parsed body.
usdtWebhookPost(r) ==
  /\ endpoint = "/api/payments/crypto/usdt/webhook"
  /\ handlers[r].pc = "idle"
  /\ \E request \in UsdtRequests :
       IF usdtWebhookStatus(request, usdtWebhookSecret) # 0
         THEN handlers' = [handlers EXCEPT ![r] =
                             [pc |-> "rejected", request |-> request,
                              status |-> usdtWebhookStatus(request, usdtWebhookSecret)]]
         ELSE handleUsdtPayment(r, request)
  /\ UNCHANGED <<usersTable, paymentsTable, creditLedgerTable, accountVars, workerVars, endpoint, usdtWebhookSecret, videoTasksTable, failed, seen>>

\* The response of a request that ended before any storage statement is
\* returned: the error status of a rejected request, 204 for an ignored event.
sendResponse(r) ==
  /\ handlers[r].pc \in {"rejected", "ignored"}
  /\ handlers' = [handlers EXCEPT ![r] = idleHandler]
  /\ UNCHANGED <<usersTable, paymentsTable, creditLedgerTable, accountVars, workerVars, endpoint, usdtWebhookSecret, videoTasksTable, failed, seen>>

\* const [existingPayment] = await database.select()...; Stripe: if (existingPayment) return
selectExisting(r) ==
  /\ handlers[r].pc = "select"
  /\ LET event == handlers[r].event
         existing == existingPayment(paymentsTable, providerPaymentId(event))
     IN IF existing = 0
          THEN /\ handlers' = [handlers EXCEPT ![r] = [pc |-> "insert", event |-> event, after |-> handlers[r].after]]
               /\ UNCHANGED seen
          ELSE IF event.kind = "usdt"
            THEN /\ handlers' = [handlers EXCEPT ![r] = [pc |-> "update", event |-> event, after |-> handlers[r].after,
                                                         existing |-> existing]]
                 /\ UNCHANGED seen
            ELSE returns(r)
  /\ UNCHANGED <<usersTable, paymentsTable, creditLedgerTable, accountVars, workerVars, endpoint, usdtWebhookSecret, videoTasksTable, failed>>

\* Mutant: the update writes every column from the payload.
updateExistingReplace(r) ==
  /\ handlers[r].pc = "update"
  /\ paymentsTable' = [paymentsTable EXCEPT ![handlers[r].existing] = paymentRow(handlers[r].event)]
  /\ returns(r)
  /\ UNCHANGED <<usersTable, creditLedgerTable, accountVars, workerVars, endpoint, usdtWebhookSecret, videoTasksTable, failed>>

\* USDT, existing payment: update status, raw payload and updatedAt where id = existingPayment.id; return
updateExisting(r) ==
  /\ handlers[r].pc = "update"
  /\ paymentsTable' = [paymentsTable EXCEPT ![handlers[r].existing] =
                         [@ EXCEPT !.status = paymentStatus(handlers[r].event),
                                   !.rawPayloadJson = handlers[r].event,
                                   !.updatedAt = clock]]
  /\ returns(r)
  /\ UNCHANGED <<usersTable, creditLedgerTable, accountVars, workerVars, endpoint, usdtWebhookSecret, videoTasksTable, failed>>

\* await database.insert(paymentsTable).values({...}); then grantCredits or return
insertPayment(r) ==
  /\ handlers[r].pc = "insert"
  /\ ~violatesUnique(paymentsTable, providerPaymentId(handlers[r].event))
  /\ paymentsTable' = Append(paymentsTable, paymentRow(handlers[r].event))
  /\ IF grantsAfterInsert(handlers[r].event)
       THEN /\ handlers' = [handlers EXCEPT ![r].pc = "grantUser"]
            /\ UNCHANGED seen
       ELSE returns(r)
  /\ UNCHANGED <<usersTable, creditLedgerTable, accountVars, workerVars, endpoint, usdtWebhookSecret, videoTasksTable, failed>>

\* The users row is locked by a transaction (of videoTaskService.create or of
\* authStore.resetPassword) that has updated it and has not yet committed or
\* rolled back.
rowLocked(userId) ==
  \E s \in Slots :
    \/ creates[s].pc \in {"insertTask", "insertLedger", "commit"} /\ creates[s].userId = userId
    \/ resets[s].pc \in {"updateToken", "commit"} /\ resets[s].userId = userId

\* grantCredits: update users set apiCredits = apiCredits + delta where id = userId returning.
\* The statement waits while a transaction holds the row.
grantUser(r) ==
  /\ handlers[r].pc = "grantUser"
  /\ handlers[r].event.userId \in DOMAIN usersTable
  /\ ~rowLocked(handlers[r].event.userId)
  /\ LET userId == handlers[r].event.userId
         apiCredits == usersTable[userId] + creditsOf(handlers[r].event)
     IN /\ usersTable' = [usersTable EXCEPT ![userId] = apiCredits]
        /\ handlers' = [handlers EXCEPT ![r] = [pc |-> "grantLedger", event |-> handlers[r].event,
                                                 after |-> handlers[r].after,
                                                 balanceAfter |-> apiCredits]]
  /\ UNCHANGED <<paymentsTable, creditLedgerTable, accountVars, workerVars, endpoint, usdtWebhookSecret, videoTasksTable, failed, seen>>

\* grantCredits: insert into credit_ledger {..., balanceAfter: updatedUser.apiCredits, referenceId}
grantLedger(r) ==
  /\ handlers[r].pc = "grantLedger"
  /\ creditLedgerTable' = Append(creditLedgerTable,
       [userId |-> handlers[r].event.userId,
        deltaCredits |-> creditsOf(handlers[r].event),
        balanceAfter |-> handlers[r].balanceAfter,
        reason |-> reasonOf(handlers[r].event),
        referenceId |-> providerPaymentId(handlers[r].event),
        metadataJson |-> metadataOf(handlers[r].event)])
  /\ returns(r)
  /\ UNCHANGED <<usersTable, paymentsTable, accountVars, workerVars, endpoint, usdtWebhookSecret, videoTasksTable, failed>>

\* An await of the handler rejects: a storage error at any statement, the unique
\* index on insert, or "User not found" in grantCredits. The statement has no
\* effect; the request ends with an error.
handlerThrows(r) ==
  /\ handlers[r].pc \in HandlerSteps
  /\ handlers' = [handlers EXCEPT ![r] = idleHandler]
  /\ failed' = [failed EXCEPT ![providerPaymentId(handlers[r].event)] =
                  @ \/ settles(handlers[r].event)]
  /\ UNCHANGED <<usersTable, paymentsTable, creditLedgerTable, accountVars, workerVars, endpoint,
                 usdtWebhookSecret, videoTasksTable, seen>>

PayNext ==
  \E r \in Slots :
    \/ handleStripeEvent(r)
    \/ usdtWebhookPost(r)
    \/ sendResponse(r)
    \/ selectExisting(r)
    \/ updateExisting(r)
    \/ insertPayment(r)
    \/ grantUser(r)
    \/ grantLedger(r)
    \/ handlerThrows(r)

\* Both token addresses are configured.
bothTokens == Len(trackedTokens) = 2

\* The chain worker and the API server are separate processes over separate
\* tables: each specification runs one of them and leaves the other at rest.
WorkerAtRest ==
  /\ WorkerInit
  /\ bothTokens
  /\ chain = ChainOf([t \in TxHashes |-> FirstBlock])
  /\ startBlock = NULL

PayAtRest ==
  /\ PayInit
  /\ endpoint = "/api/payments/stripe/webhook"
  /\ usdtWebhookSecret = ""

Init == WorkerInit /\ bothTokens /\ PayAtRest

Next == WorkerNext

Spec == Init /\ [][Next]_vars

PayOnlyInit == PayInit /\ WorkerAtRest

PaySpec == PayOnlyInit /\ [][PayNext]_vars

\* ------------------------------------------- registration and video tasks
\* Video tasks the model creates.
MaxTasks == 2

\* env.creditsPerTask (default) and the duration limits.
creditsPerTask == 10
MINIMUM_VIDEO_DURATION_SECONDS == 4
MAXIMUM_VIDEO_DURATION_SECONDS == 12

\* The accounts of the model: "u1" signs up with a password, "u2" with Google.
RegisterUserIds == {"u1"}
GoogleUserIds == {"u2"}

\* clampDurationSeconds over whole seconds (Math.round leaves them as they are).
clampDurationSeconds(durationSeconds) ==
  IF durationSeconds < MINIMUM_VIDEO_DURATION_SECONDS THEN MINIMUM_VIDEO_DURATION_SECONDS
  ELSE IF durationSeconds > MAXIMUM_VIDEO_DURATION_SECONDS THEN MAXIMUM_VIDEO_DURATION_SECONDS
  ELSE durationSeconds

calculateVideoTaskCredits(durationSeconds) ==
  creditsPerTask + clampDurationSeconds(durationSeconds)

\* insert into users {..., apiCredits: env.initialUserCredits}
insertUser(table, userId) == table @@ (userId :> initialUserCredits)

\* authStore.register: "Email already registered." when the user exists, else the insert.
register ==
  /\ \E userId \in RegisterUserIds :
       IF userId \in DOMAIN usersTable
         THEN UNCHANGED <<usersTable, passwordHashes>>
         ELSE /\ usersTable' = insertUser(usersTable, userId)
              /\ passwordHashes' = passwordHashes @@ (userId :> hashPassword("pw0"))
  /\ UNCHANGED <<apiKeysTable, rotations, passwordResetTokensTable, resets, creates, timers,
                 workerVars, paymentsTable, creditLedgerTable, handlers, endpoint, seen, failed,
                 usdtWebhookSecret, videoTasksTable>>

\* The Google callback for a profile without an account: createUserFromGoogleProfile.
createUserFromGoogleProfile ==
  /\ \E userId \in GoogleUserIds :
       /\ userId \notin DOMAIN usersTable
       /\ usersTable' = insertUser(usersTable, userId)
       /\ passwordHashes' = passwordHashes @@ (userId :> hashPassword("uuid"))
  /\ UNCHANGED <<apiKeysTable, rotations, passwordResetTokensTable, resets, creates, timers,
                 workerVars, paymentsTable, creditLedgerTable, handlers, endpoint, seen, failed,
                 usdtWebhookSecret, videoTasksTable>>

\* The durations the create requests of the model ask for: below the minimum
\* and above the maximum.
DurationsRequested == {3, 13}

\* The video_tasks row the transaction inserts.
taskRow(taskId, call) ==
  [id |-> taskId, userId |-> call.userId, durationSeconds |-> call.durationSeconds,
   creditsCost |-> call.creditsCost, status |-> "queued", providerTaskId |-> "null",
   outputVideoUrl |-> "null", createdAt |-> clock, updatedAt |-> clock, completedAt |-> NULL]

\* The credit_ledger row the transaction inserts.
taskLedgerRow(taskId, call) ==
  [userId |-> call.userId,
   deltaCredits |-> 0 - call.creditsCost,
   balanceAfter |-> call.nextCreditsBalance,
   reason |-> "video_task_created",
   referenceId |-> taskId,
   metadataJson |-> [durationSeconds |-> call.durationSeconds]]

\* enqueueTaskProgression(taskId): two callbacks handed to setTimeout.
enqueueTaskProgression(taskId) ==
  {[taskId |-> taskId, delay |-> 1000, status |-> "processing", state |-> "scheduled"],
   [taskId |-> taskId, delay |-> 3500, status |-> "succeeded", state |-> "scheduled"]}

\* Mutant: the balance is not compared with the cost.
insufficientNever(apiCredits, creditsCost) == FALSE

\* if (databaseUser.apiCredits < creditsCost) throw new Error("Insufficient API credits.")
insufficient(apiCredits, creditsCost) == apiCredits < creditsCost

\* videoTaskService.create(userId, requestBody) is called: duration and cost are
\* computed, the transaction begins and awaits the select.
create(s) ==
  /\ creates[s].pc = "idle"
  /\ Len(videoTasksTable) + Cardinality({t \in Slots : creates[t].pc # "idle"}) < MaxTasks
  /\ \E userId \in RegisterUserIds \cup GoogleUserIds, durationSeconds \in DurationsRequested :
       creates' = [creates EXCEPT ![s] =
                     [pc |-> "select", userId |-> userId,
                      durationSeconds |-> clampDurationSeconds(durationSeconds),
                      creditsCost |-> calculateVideoTaskCredits(clampDurationSeconds(durationSeconds))]]
  /\ UNCHANGED <<workerVars, payVars, apiKeysTable, rotations, passwordResetTokensTable,
                 passwordHashes, resets, timers>>

\* The select of the transaction resolves with the committed row: the callback
\* throws for no user or an insufficient balance (the transaction rolls back and
\* create rejects), otherwise it awaits the update of the balance it computed.
createSelect(s) ==
  /\ creates[s].pc = "select"
  /\ LET call == creates[s]
     IN creates' = [creates EXCEPT ![s] =
          IF call.userId \notin DOMAIN usersTable
            THEN [pc |-> "threw", message |-> "User not found for task creation."]
          ELSE IF insufficient(usersTable[call.userId], call.creditsCost)
            THEN [pc |-> "threw", message |-> "Insufficient API credits."]
          ELSE [pc |-> "update", userId |-> call.userId,
                durationSeconds |-> call.durationSeconds, creditsCost |-> call.creditsCost,
                nextCreditsBalance |-> usersTable[call.userId] - call.creditsCost]]
  /\ UNCHANGED <<workerVars, payVars, apiKeysTable, rotations, passwordResetTokensTable,
                 passwordHashes, resets, timers>>

\* tx.update(usersTable).set({apiCredits: nextCreditsBalance}): the statement
\* waits for the row while another transaction holds it, then holds it itself;
\* what it wrote is seen by others at the commit.
createUpdate(s) ==
  /\ creates[s].pc = "update"
  /\ ~rowLocked(creates[s].userId)
  /\ creates' = [creates EXCEPT ![s].pc = "insertTask"]
  /\ UNCHANGED <<workerVars, payVars, apiKeysTable, rotations, passwordResetTokensTable,
                 passwordHashes, resets, timers>>

\* tx.insert(videoTasksTable)
createInsertTask(s) ==
  /\ creates[s].pc = "insertTask"
  /\ creates' = [creates EXCEPT ![s].pc = "insertLedger"]
  /\ UNCHANGED <<workerVars, payVars, apiKeysTable, rotations, passwordResetTokensTable,
                 passwordHashes, resets, timers>>

\* tx.insert(creditLedgerTable); the callback returns
createInsertLedger(s) ==
  /\ creates[s].pc = "insertLedger"
  /\ creates' = [creates EXCEPT ![s].pc = "commit"]
  /\ UNCHANGED <<workerVars, payVars, apiKeysTable, rotations, passwordResetTokensTable,
                 passwordHashes, resets, timers>>

\* The transaction commits: balance, task and ledger entry become visible
\* together. create goes on: enqueueTaskProgression(taskId), then it awaits getById.
createCommit(s) ==
  /\ creates[s].pc = "commit"
  /\ LET call == creates[s]
         taskId == Len(videoTasksTable) + 1
     IN /\ usersTable' = [usersTable EXCEPT ![call.userId] = call.nextCreditsBalance]
        /\ videoTasksTable' = Append(videoTasksTable, taskRow(taskId, call))
        /\ creditLedgerTable' = Append(creditLedgerTable, taskLedgerRow(taskId, call))
        /\ timers' = timers \cup enqueueTaskProgression(taskId)
        /\ creates' = [creates EXCEPT ![s] =
                          [pc |-> "getById", userId |-> call.userId, taskId |-> taskId,
                           creditsCost |-> call.creditsCost,
                           remainingCredits |-> call.nextCreditsBalance]]
  /\ UNCHANGED <<workerVars, paymentsTable, handlers, endpoint, seen, failed, usdtWebhookSecret,
                 apiKeysTable, rotations, passwordResetTokensTable, passwordHashes, resets>>

\* const createdTask = await this.getById(userId, taskId); return {task, remainingCredits}
createGetById(s) ==
  /\ creates[s].pc = "getById"
  /\ \E i \in DOMAIN videoTasksTable :
       /\ videoTasksTable[i].id = creates[s].taskId
       /\ videoTasksTable[i].userId = creates[s].userId
  /\ creates' = [creates EXCEPT ![s] =
                    [pc |-> "returned", taskId |-> creates[s].taskId,
                     remainingCredits |-> creates[s].remainingCredits]]
  /\ UNCHANGED <<workerVars, payVars, apiKeysTable, rotations, passwordResetTokensTable,
                 passwordHashes, resets, timers>>

\* An await of create rejects with a storage error. Inside the transaction it
\* rolls back, and nothing the transaction wrote is kept; at getById the
\* transaction has committed already.
createThrows(s) ==
  /\ creates[s].pc \in {"select", "update", "insertTask", "insertLedger", "commit", "getById"}
  /\ creates' = [creates EXCEPT ![s] = [pc |-> "threw", message |-> "storage error"]]
  /\ UNCHANGED <<workerVars, payVars, apiKeysTable, rotations, passwordResetTokensTable,
                 passwordHashes, resets, timers>>

\* POST /api/video-tasks answers: 201 with the task, 402 for "Insufficient API
\* credits", 500 for any other error.
createResponds(s) ==
  /\ creates[s].pc \in {"returned", "threw"}
  /\ creates' = [creates EXCEPT ![s] = idleCall]
  /\ UNCHANGED <<workerVars, payVars, apiKeysTable, rotations, passwordResetTokensTable,
                 passwordHashes, resets, timers>>

\* Accounts, video tasks and the Stripe webhook (one request at a time), from
\* an empty users table.
CreditInit ==
  /\ WorkerAtRest
  /\ usersTable = <<>>
  /\ paymentsTable = <<>>
  /\ creditLedgerTable = <<>>
  /\ handlers = [r \in Slots |-> idleHandler]
  /\ endpoint = "/api/payments/stripe/webhook"
  /\ seen = [id \in CanonicalIds |-> <<>>]
  /\ failed = [id \in CanonicalIds |-> FALSE]
  /\ usdtWebhookSecret = ""
  /\ videoTasksTable = <<>>
  /\ AccountInit

\* No request is being served.
serverIdle ==
  /\ \A r \in Slots : handlers[r].pc = "idle"
  /\ \A s \in Slots : creates[s].pc = "idle"

\* The server takes the next request when it has answered the last one.
CreditNext ==
  \/ register
  \/ createUserFromGoogleProfile
  \/ \E r \in {"r1"} :
       \/ serverIdle /\ create(r)
       \/ createSelect(r)
       \/ createUpdate(r)
       \/ createInsertTask(r)
       \/ createInsertLedger(r)
       \/ createCommit(r)
       \/ createGetById(r)
       \/ createThrows(r)
       \/ createResponds(r)
       \/ serverIdle /\ handleStripeEvent(r)
       \/ sendResponse(r)
       \/ selectExisting(r)
       \/ insertPayment(r)
       \/ grantUser(r)
       \/ grantLedger(r)
       \/ handlerThrows(r)

CreditSpec == CreditInit /\ [][CreditNext]_vars

\* ------------------------------------------------ the ledger functions alone
\* upsertDeposit and refreshPendingConfirmations called directly, with any batch
\* of the chain's logs and any head (also a head below a log's block).
callUpsertBatch ==
  /\ \E batch \in SUBSET chain \ {{}} : logs' = sortLogs(batch)
  /\ \E head \in Blocks : latestBlock' = head
  /\ chainDepositsTable' = upsertBatch(chainDepositsTable, logs', latestBlock')
  /\ pc' = "upserted"
  /\ cycleStart' = snapshot(<<>>, <<>>)
  /\ UNCHANGED <<accountVars, payVars, clock, sweepsRun, tokenEnv, worker, droppedTick, chain, startBlock, workerStateTable, isPolling, cyclesInFlight, fromBlock, tokenIndex,
                 pendingDeposits, outcome, thrownAt, firstFromBlock, scanFloor>>

\* The batch just processed is processed again against the same head.
callReplayBatch ==
  /\ pc = "upserted"
  /\ chainDepositsTable' = upsertBatch(chainDepositsTable, logs, latestBlock)
  /\ pc' = "replayed"
  /\ UNCHANGED <<accountVars, payVars, clock, sweepsRun, tokenEnv, worker, droppedTick, chain, startBlock, workerStateTable, isPolling, cyclesInFlight, latestBlock, fromBlock,
                 tokenIndex, logs, pendingDeposits, outcome, thrownAt, cycleStart,
                 firstFromBlock, scanFloor>>

callSweep ==
  /\ \E head \in Blocks : latestBlock' = head
  /\ chainDepositsTable' = refreshPendingConfirmations(chainDepositsTable, latestBlock')
  /\ pc' = "swept"
  /\ logs' = <<>>
  /\ cycleStart' = snapshot(workerStateTable, chainDepositsTable)
  /\ UNCHANGED <<accountVars, payVars, clock, sweepsRun, tokenEnv, worker, droppedTick, chain, startBlock, workerStateTable, isPolling, cyclesInFlight, fromBlock, tokenIndex,
                 pendingDeposits, outcome, thrownAt, firstFromBlock, scanFloor>>

LedgerNext ==
  \/ callUpsertBatch
  \/ callReplayBatch
  \/ callSweep

LedgerInit == Init /\ startBlock = NULL

LedgerSpec == LedgerInit /\ [][LedgerNext]_vars

\* A cycle has returned whose head was the highest height of the model.
returnedAtLastBlock == pc = "idle" /\ outcome = "returned" /\ latestBlock = LastBlock

\* The timer keeps firing and every await settles (weak fairness of Next); the head
\* advances and cycles keep succeeding: again and again a cycle returns at LastBlock.
\* Checked with a configured start block.
FairInit == Init /\ startBlock # NULL

FairSpec ==
  /\ FairInit
  /\ [][Next]_vars
  /\ WF_vars(Next)
  /\ []<>returnedAtLastBlock

\* ------------------------------------------- the deposit records over time
\* Readings of the clock the model distinguishes beyond the first.
MaxClock == 1

\* A log as a later observation could report it after a reorganisation: the
\* same (txHash, logIndex) with every other value different.
reobserved(log) ==
  [log EXCEPT !.token = IF log.token = "USDT" THEN "USDC" ELSE "USDT",
              !.blockNumber = log.blockNumber + 1,
              !.amountRaw = 7000000,
              !.fromAddress = "0xanother",
              !.toAddress = "0xelsewhere"]

\* The inputs upsertDeposit is called with: the logs of transaction 0xa and
\* their re-observed forms.
ObservedInputs ==
  {l \in chain : l.txHash = "0xa"} \cup {reobserved(l) : l \in {k \in chain : k.txHash = "0xa"}}

\* Time passes.
tick ==
  /\ clock < MaxClock
  /\ clock' = clock + 1
  /\ UNCHANGED <<accountVars, payVars, sweepsRun, tokenEnv, worker, droppedTick, chain, startBlock,
                 workerStateTable, chainDepositsTable, isPolling, cyclesInFlight, pc, latestBlock,
                 fromBlock, tokenIndex, logs, pendingDeposits, outcome, thrownAt, cycleStart,
                 firstFromBlock, scanFloor>>

\* upsertDeposit called directly with one input and any head.
callUpsertDeposit ==
  /\ \E input \in ObservedInputs : logs' = <<input>>
  /\ \E head \in Blocks : latestBlock' = head
  /\ chainDepositsTable' = upsertDeposit(chainDepositsTable, logs'[1], latestBlock')
  /\ pc' = "upserted"
  /\ UNCHANGED <<accountVars, payVars, clock, sweepsRun, tokenEnv, worker, droppedTick, chain, startBlock,
                 workerStateTable, isPolling, cyclesInFlight, fromBlock, tokenIndex,
                 pendingDeposits, outcome, thrownAt, cycleStart, firstFromBlock, scanFloor>>

RecordInit == WorkerAtRest /\ PayAtRest

RecordNext ==
  \/ tick
  \/ callUpsertDeposit
  \/ callSweep

RecordSpec == RecordInit /\ [][RecordNext]_vars

\* ------------------------------------------------- startup and timer ticks
\* The worker from module load on, with the ticks that arrive during a cycle,
\* under every configuration of the token addresses.
SchedulerInit ==
  /\ WorkerInit
  /\ chain = ChainOf([t \in TxHashes |-> IF t = "0xa" THEN FirstBlock ELSE FirstBlock + 1])
  /\ startBlock \in {NULL, FirstBlock}
  /\ PayAtRest

SchedulerNext ==
  \/ WorkerNext
  \/ tickDropped

SchedulerSpec == SchedulerInit /\ [][SchedulerNext]_vars

\* ------------------------------------------------------------------ claims
cursor == getCursorBlock(workerStateTable)

hasDeposit(table, l) ==
  \E i \in DOMAIN table : table[i].txHash = l.txHash /\ table[i].logIndex = l.logIndex

cycleReturned == pc = "idle" /\ outcome = "returned"
cycleThrew == pc = "idle" /\ outcome = "threw"
sweepSteps == {"refreshPendingConfirmations", "sweepUpdate"}

\* C3: the persisted cursor never decreases and, once written, never disappears,
\* in any step of any cycle, whatever heads the RPC reports.
CursorMonotonic ==
  [][/\ getCursorBlock(workerStateTable') >= getCursorBlock(workerStateTable)
     /\ (getCursorBlock(workerStateTable) # NULL => getCursorBlock(workerStateTable') # NULL)]_vars

\* C3 witness: a cycle that returned advanced an existing cursor.
CursorAdvancedWitness ==
  cycleReturned /\ cycleStart.cursor # NULL /\ cursor > cycleStart.cursor

NoLogSkippedSinceFirstCycle ==
  \A l \in chain :
    (cursor # NULL /\ firstFromBlock <= l.blockNumber /\ l.blockNumber <= cursor)
      => hasDeposit(chainDepositsTable, l)

\* C5 amended: every transfer log of the chain between the fromBlock of the
\* cycle that first wrote the cursor and the persisted cursor has a deposit record.
NoLogSkippedSinceScanFloor ==
  \A l \in chain :
    (cursor # NULL /\ scanFloor <= l.blockNumber /\ l.blockNumber <= cursor)
      => hasDeposit(chainDepositsTable, l)

\* C5 witness: the cursor stands past logs of both tokens after a failed cycle
\* was followed by a successful one.
AllLogsCoveredWitness ==
  /\ cursor # NULL
  /\ cycleStart.rows > 0
  /\ cycleStart.cursor # cursor
  /\ \A l \in chain : scanFloor <= l.blockNumber /\ l.blockNumber <= cursor
  /\ \E l \in chain : l.token = "USDC"

\* C6 as stated: no step sets a confirmed deposit record back to pending.
NeverRevertsToPending ==
  [][\A i \in DOMAIN chainDepositsTable :
       chainDepositsTable[i].status = "confirmed" => chainDepositsTable'[i].status = "confirmed"]_vars

\* C9: every deposit record is confirmed exactly when its stored confirmations
\* reach minConfirmations.
StatusMatchesConfirmations ==
  \A i \in DOMAIN chainDepositsTable :
    (chainDepositsTable[i].status = "confirmed")
      <=> (chainDepositsTable[i].confirmations >= minConfirmations)

\* C9 witness: in a first scan, before any sweep, one record was inserted
\* confirmed at exactly the threshold and another pending.
InsertedConfirmedWitness ==
  /\ pc = "setCursorBlock"
  /\ cycleStart.rows = 0
  /\ \E i \in DOMAIN chainDepositsTable :
       /\ chainDepositsTable[i].status = "confirmed"
       /\ chainDepositsTable[i].confirmations = minConfirmations
  /\ \E i \in DOMAIN chainDepositsTable : chainDepositsTable[i].status = "pending"

rowStatus(id) ==
  IF \E i \in DOMAIN chainDepositsTable : chainDepositsTable[i].id = id
    THEN chainDepositsTable[CHOOSE i \in DOMAIN chainDepositsTable : chainDepositsTable[i].id = id].status
    ELSE "absent"

\* The ids of every deposit record the model's chains can produce.
DepositIds == UNION {{<<t, l.logIndex>> : l \in TxLogs[t]} : t \in TxHashes}

\* The record is pending and a head the model can report lies
\* minConfirmations - 1 above its block.
pendingWithinHorizon(id) ==
  \E i \in DOMAIN chainDepositsTable :
    /\ chainDepositsTable[i].id = id
    /\ chainDepositsTable[i].status = "pending"
    /\ chainDepositsTable[i].blockNumber + minConfirmations - 1 <= LastBlock

\* C10, one cycle: when a cycle returns with head h, every record that was
\* pending at block b when the cycle began, with h >= b + minConfirmations - 1,
\* has confirmations h - b + 1 and is confirmed.
SweepConfirmsDeepPending ==
  cycleReturned =>
    \A i \in DOMAIN chainDepositsTable :
      (/\ chainDepositsTable[i].id \in cycleStart.pending
       /\ latestBlock >= chainDepositsTable[i].blockNumber + minConfirmations - 1)
        => /\ chainDepositsTable[i].confirmations = latestBlock - chainDepositsTable[i].blockNumber + 1
           /\ chainDepositsTable[i].status = "confirmed"

\* C10: the one-cycle statement in every state, and under fair scheduling with
\* an advancing head every pending record within the horizon is eventually confirmed.
PendingEventuallyConfirmed ==
  /\ []SweepConfirmsDeepPending
  /\ \A id \in DepositIds : pendingWithinHorizon(id) ~> (rowStatus(id) = "confirmed")

\* C10 witness: a cycle that skipped the scan (fromBlock > head, no logs
\* requested) returned and a record pending at its start is confirmed.
SweepAloneConfirmedWitness ==
  /\ cycleReturned
  /\ skipsScan(fromBlock, latestBlock)
  /\ \E i \in DOMAIN chainDepositsTable :
       /\ chainDepositsTable[i].id \in cycleStart.pending
       /\ chainDepositsTable[i].status = "confirmed"

rowsOf(table, l) == {i \in DOMAIN table : table[i].txHash = l.txHash /\ table[i].logIndex = l.logIndex}

\* C7: processing a batch a second time against the same head leaves the
\* deposit records as the first pass left them, and after either pass there is
\* exactly one record per (txHash, logIndex) of the batch, with the confirmations
\* and status of that head.
ReplayIdempotent ==
  /\ [][pc' = "replayed" => chainDepositsTable' = chainDepositsTable]_vars
  /\ [](pc \in {"upserted", "replayed"} =>
          \A n \in DOMAIN logs :
            /\ Cardinality(rowsOf(chainDepositsTable, logs[n])) = 1
            /\ \A i \in rowsOf(chainDepositsTable, logs[n]) :
                 /\ chainDepositsTable[i].confirmations
                      = upsertConfirmations(logs[n].blockNumber, latestBlock)
                 /\ chainDepositsTable[i].status
                      = statusOf(upsertConfirmations(logs[n].blockNumber, latestBlock)))

\* C7 witness: a batch of two logs has been replayed into a table of three
\* records, some confirmed and some pending.
ReplayedWitness ==
  /\ pc = "replayed"
  /\ Len(logs) = 2
  /\ Len(chainDepositsTable) = 3
  /\ \E i \in DOMAIN chainDepositsTable : chainDepositsTable[i].status = "confirmed"
  /\ \E i \in DOMAIN chainDepositsTable : chainDepositsTable[i].status = "pending"

\* C8: upsertDeposit writes head - block + 1 when head >= block and 0
\* otherwise; the sweep writes head - block + 1 to every record that was pending
\* with block <= head.
ConfirmationPolicy ==
  /\ pc \in {"upserted", "replayed"} =>
       \A n \in DOMAIN logs : \A i \in rowsOf(chainDepositsTable, logs[n]) :
         chainDepositsTable[i].confirmations
           = IF latestBlock >= logs[n].blockNumber
               THEN latestBlock - logs[n].blockNumber + 1
               ELSE 0
  /\ pc = "swept" =>
       \A i \in DOMAIN chainDepositsTable :
         (chainDepositsTable[i].id \in cycleStart.pending
            /\ chainDepositsTable[i].blockNumber <= latestBlock)
           => chainDepositsTable[i].confirmations
                = latestBlock - chainDepositsTable[i].blockNumber + 1

\* C8 witness: a batch was upserted with one log above the head (0
\* confirmations) and one at or below it.
PolicyBothBranchesWitness ==
  /\ pc = "upserted"
  /\ \E n \in DOMAIN logs : logs[n].blockNumber > latestBlock
  /\ \E n \in DOMAIN logs : logs[n].blockNumber < latestBlock

\* The sweep half of C8 has acted: the sweep rewrote a pending record to confirmed.
SweptWitness ==
  /\ pc = "swept"
  /\ \E i \in DOMAIN chainDepositsTable :
       /\ chainDepositsTable[i].id \in cycleStart.pending
       /\ chainDepositsTable[i].status = "confirmed"

ledgerEntries(id) == {i \in DOMAIN creditLedgerTable : creditLedgerTable[i].referenceId = id}

noneInFlight == \A r \in Slots : handlers[r].pc = "idle"

\* C1: the credit ledger holds at most one entry per canonical payment id.
AtMostOneGrantPerReference ==
  \A id \in CanonicalIds : Cardinality(ledgerEntries(id)) <= 1

\* C1 witness: a canonical id was delivered MaxDeliveries times to the end and
\* has its one ledger entry.
RedeliveredWitness ==
  \E id \in CanonicalIds :
    /\ Len(seen[id]) = MaxDeliveries
    /\ Cardinality(ledgerEntries(id)) = 1

\* C2 as stated: after an unsettled webhook and then a settled one for the same
\* transaction, the ledger holds exactly one entry for it, with the credits of
\* the second payload, and the balance carries that increment.
PendingThenConfirmedGrantsOnce ==
  \A id \in {"usdt_tx1"} :
    (/\ noneInFlight
     /\ Len(seen[id]) = 2
     /\ ~seen[id][1].settled
     /\ seen[id][2].settled
     /\ seen[id][2].credits > 0)
      => /\ Cardinality(ledgerEntries(id)) = 1
         /\ \A i \in ledgerEntries(id) : creditLedgerTable[i].deltaCredits = seen[id][2].credits
         /\ usersTable["u1"] = initialUserCredits + seen[id][2].credits
\* C11: never more than one pollOnce in flight; a tick that arrives during a
\* cycle changes nothing of the worker (it starts nothing and leaves nothing
\* queued), and when the cycle ends no cycle is in flight.
OneCycleInFlight ==
  /\ [](cyclesInFlight <= 1)
  /\ [][(droppedTick' /\ ~droppedTick) =>
          UNCHANGED <<pc, isPolling, cyclesInFlight, latestBlock, fromBlock, tokenIndex, logs,
                      pendingDeposits, workerStateTable, chainDepositsTable, outcome, cycleStart>>]_vars
  /\ [](pc = "idle" => cyclesInFlight = 0)

\* C11 witness: a tick was dropped during a cycle that has since returned.
DroppedTickWitness ==
  droppedTick /\ cycleReturned /\ cursor # NULL

\* C18: with no token address configured the worker never gets past module
\* load: no RPC call, no cycle, no cursor, no deposit, no timer.
FailsFastWithoutTokens ==
  (polygonUsdtAddress = "null" /\ polygonUsdcAddress = "null") =>
    /\ worker \in {"loading", "exited"}
    /\ pc = "idle"
    /\ latestBlock = NULL
    /\ outcome = "none"
    /\ cyclesInFlight = 0
    /\ workerStateTable = <<>>
    /\ chainDepositsTable = <<>>

\* C18 witness: the worker exited at startup.
ExitedAtStartupWitness ==
  worker = "exited" /\ tokenEnv.POLYGON_USDC_ADDRESS = " "

FromBlockResolution ==
  /\ [][(pc = "getCursorBlock" /\ pc' # "idle") =>
          fromBlock' = IF cursor # NULL THEN cursor + 1
                       ELSE IF startBlock # NULL THEN startBlock
                       ELSE latestBlock]_vars
  /\ []((pc = "getLogs" /\ cycleStart.cursor = NULL /\ startBlock = NULL) =>
          (fromBlock = latestBlock /\ getLogs(trackedTokens[tokenIndex], fromBlock, latestBlock)
                                       = sortLogs({l \in chain : l.token = trackedTokens[tokenIndex]
                                                                    /\ l.blockNumber = latestBlock})))

\* C20 witness: with no cursor and no start block a scan of the head block found a log.
HeadOnlyScanWitness ==
  /\ pc = "upsertDeposit"
  /\ cycleStart.cursor = NULL
  /\ startBlock = NULL
  /\ fromBlock = latestBlock
  /\ Len(logs) > 0
\* The payment row of a canonical id, as a set of positions.
paymentRows(id) == {i \in DOMAIN paymentsTable : paymentsTable[i].providerPaymentId = id}

\* C12: every USDT ledger entry stems from a payload that was confirmed with
\* enough confirmations; a handler that ends on an unsettled payload leaves the
\* payment row pending (failed for status failed) and the step changes neither
\* balance nor ledger.
UnsettledNeverGrants ==
  /\ [](\A i \in DOMAIN creditLedgerTable :
          creditLedgerTable[i].reason = "payment_usdt_confirmed" =>
            /\ creditLedgerTable[i].metadataJson.status = "confirmed"
            /\ creditLedgerTable[i].metadataJson.confirmations >= usdtConfirmationsRequired)
  /\ [][\A r \in Slots :
          (/\ handlers[r].pc \in {"insert", "update"}
           /\ handlers[r].event.kind = "usdt"
           /\ ~(/\ handlers[r].event.status = "confirmed"
                /\ handlers[r].event.confirmations >= usdtConfirmationsRequired)
           /\ handlers'[r] # handlers[r]
           /\ paymentsTable' # paymentsTable)
            => /\ \A i \in DOMAIN paymentsTable' :
                    paymentsTable'[i].providerPaymentId = providerPaymentId(handlers[r].event) =>
                      /\ paymentsTable'[i].status =
                           IF handlers[r].event.status = "failed" THEN "failed" ELSE "pending"
                      /\ paymentsTable'[i].rawPayloadJson = handlers[r].event
               /\ handlers'[r].pc = "idle"
               /\ usersTable' = usersTable
               /\ creditLedgerTable' = creditLedgerTable]_vars

\* C12 witness: a payload confirmed with too few confirmations updated a
\* succeeded payment row to pending.
ConfirmedTooEarlyWitness ==
  \E i \in DOMAIN paymentsTable :
    /\ paymentsTable[i].status = "pending"
    /\ paymentsTable[i].rawPayloadJson.status = "confirmed"
    /\ Len(seen["usdt_tx1"]) = 2
    /\ seen["usdt_tx1"][1].settled

RECURSIVE sumDeltas(_, _)
sumDeltas(table, userId) ==
  IF Len(table) = 0 THEN 0
  ELSE (IF table[1].userId = userId THEN table[1].deltaCredits ELSE 0) + sumDeltas(Tail(table), userId)

\* C13 as stated: in every state the balance increments applied to a user are
\* exactly the user's ledger entries.
GrantIsAtomic ==
  \A u \in DOMAIN usersTable :
    usersTable[u] - initialUserCredits = sumDeltas(creditLedgerTable, u)

\* C15: at most one payment row per providerPaymentId.
UniquePaymentIdentity ==
  \A i, j \in DOMAIN paymentsTable :
    paymentsTable[i].providerPaymentId = paymentsTable[j].providerPaymentId => i = j

\* C15 witness: a second webhook of a transaction ran to its end and rewrote
\* the one row the first had inserted.
UpdatedInPlaceWitness ==
  /\ Len(seen["usdt_tx1"]) = 2
  /\ Cardinality(paymentRows("usdt_tx1")) = 1
  /\ \E i \in paymentRows("usdt_tx1") :
       paymentsTable[i].rawPayloadJson.amountMinor # paymentsTable[i].amountMinor
\* C16 as stated: when a delivery of a settled event threw at a storage step
\* and a later delivery of the event ran to its end without error, the ledger
\* holds exactly one entry for the event's canonical id.
RedeliveryRepairs ==
  \A id \in CanonicalIds :
    (/\ Len(seen[id]) > 0
     /\ seen[id][Len(seen[id])].settled
     /\ seen[id][Len(seen[id])].credits > 0
     /\ seen[id][Len(seen[id])].after)
      => Cardinality(ledgerEntries(id)) = 1
\* A request of the kinds C17 lists: no signature header, a signature that is
\* not the HMAC of the body under the shared secret, a body that is no JSON, or
\* an object lacking a required field.
badRequest(request) ==
  \/ ~request.signature.present
  \/ request.signature.length # 64
  \/ request.signature.mac # <<usdtWebhookSecret, request.body>>
  \/ request.body.json = "invalid"
  \/ request.body.json = "object" /\ \E f \in RequiredFields : f \notin DOMAIN request.body.value

LedgerSumsToBalance ==
  \A u \in DOMAIN usersTable : sumDeltas(creditLedgerTable, u) = usersTable[u]

\* C21: in a cycle whose fromBlock lies above its head no log is requested (the
\* cycle goes from the cursor read to the sweep), no deposit record is inserted
\* and the cursor stays as it was at the cycle's start; the sweep runs against
\* that head: when the cycle returns, every record pending at or below the head
\* carries the confirmations of that head.
ScanSkippedAboveHead ==
  /\ [][(pc = "getCursorBlock" /\ pc' # "idle" /\ fromBlock' > latestBlock)
          => /\ pc' = "refreshPendingConfirmations"
             /\ latestBlock' = latestBlock]_vars
  /\ []((fromBlock # NULL /\ fromBlock > latestBlock) =>
          /\ pc \in {"refreshPendingConfirmations", "sweepUpdate", "idle"}
          /\ Len(chainDepositsTable) = cycleStart.rows
          /\ cursor = cycleStart.cursor)
  /\ []((cycleReturned /\ fromBlock > latestBlock) =>
          \A i \in DOMAIN chainDepositsTable :
            (chainDepositsTable[i].id \in cycleStart.pending
               /\ chainDepositsTable[i].blockNumber <= latestBlock)
              => chainDepositsTable[i].confirmations
                   = latestBlock - chainDepositsTable[i].blockNumber + 1)

\* C21 witness: a cycle whose head lay below the persisted cursor returned
\* without moving the cursor, with deposit records on file.
SkippedBelowCursorWitness ==
  /\ cycleReturned
  /\ fromBlock > latestBlock + 1
  /\ cursor = cycleStart.cursor
  /\ cycleStart.pending # {}

scanSteps == {"getLogs", "upsertDeposit"}

\* The last cycle resolved a fromBlock at or below its head and is over.
scanningCycleOver ==
  pc = "idle" /\ outcome \in {"returned", "threw"} /\ fromBlock # NULL /\ fromBlock <= latestBlock

\* C22 as stated: after a scanning cycle in which no log fetch and no upsert
\* failed the cursor equals the cycle's head; if a log fetch or an upsert
\* failed the cursor is as it was when the cycle began.
CursorAtHeadAfterScan ==
  /\ (scanningCycleOver /\ thrownAt \notin scanSteps) => cursor = latestBlock
  /\ (scanningCycleOver /\ thrownAt \in scanSteps) => cursor = cycleStart.cursor

\* C22 amended: the cursor equals the cycle's head when neither a log fetch,
\* nor an upsert, nor the cursor write failed; when one of them failed the
\* cursor is as it was when the cycle began.
CursorAtHeadAfterScanAndWrite ==
  /\ (scanningCycleOver /\ thrownAt \notin scanSteps \cup {"setCursorBlock"}) => cursor = latestBlock
  /\ (scanningCycleOver /\ thrownAt \in scanSteps \cup {"setCursorBlock"}) => cursor = cycleStart.cursor

\* C22 witness: the log fetch of the second token failed after deposits of the
\* first were recorded, in a cycle that followed one which had advanced the cursor.
SecondTokenFetchThrewWitness ==
  /\ cycleThrew
  /\ thrownAt = "getLogs"
  /\ Len(chainDepositsTable) > cycleStart.rows
  /\ cycleStart.cursor # NULL
  /\ cursor = cycleStart.cursor

\* C23: a cycle that returns has run the sweep exactly once, and no cycle runs
\* it twice; the sweep ran against the cycle's head (every record pending at
\* the cycle's start at or below the head carries the confirmations of that
\* head); in a scanning cycle the sweep is not running before every log of the
\* range has its record and the cursor stands at the head.
SweepOncePerCycle ==
  /\ sweepsRun <= 1
  /\ cycleReturned =>
       /\ sweepsRun = 1
       /\ \A i \in DOMAIN chainDepositsTable :
            (chainDepositsTable[i].id \in cycleStart.pending
               /\ chainDepositsTable[i].blockNumber <= latestBlock)
              => chainDepositsTable[i].confirmations
                   = latestBlock - chainDepositsTable[i].blockNumber + 1
  /\ pc \in {"getBlockNumber", "getCursorBlock"} \cup scanSteps \cup {"setCursorBlock"} => sweepsRun = 0
  /\ (pc \in sweepSteps /\ fromBlock <= latestBlock) =>
       /\ cursor = latestBlock
       /\ \A l \in chain :
            (fromBlock <= l.blockNumber /\ l.blockNumber <= latestBlock)
              => hasDeposit(chainDepositsTable, l)

\* C23 witness: a scanning cycle to which no log was returned confirmed a
\* record that was pending when it began.
SweptWithoutLogsWitness ==
  /\ cycleReturned
  /\ fromBlock <= latestBlock
  /\ \A l \in chain : l.blockNumber < fromBlock \/ l.blockNumber > latestBlock
  /\ \E i \in DOMAIN chainDepositsTable :
       /\ chainDepositsTable[i].id \in cycleStart.pending
       /\ chainDepositsTable[i].status = "confirmed"

\* C24: a sweep against head h rewrites confirmations, status and updated_at of
\* exactly the records that were pending at or below h with confirmations or
\* status different from the values of h; every other record (confirmed, above
\* h, or pending with both values unchanged) is left as it was, updated_at
\* included, and no record is added or removed.
SweepWritesOnlyChanged ==
  [][pc' = "swept" =>
       /\ Len(chainDepositsTable') = Len(chainDepositsTable)
       /\ \A i \in DOMAIN chainDepositsTable :
            LET row == chainDepositsTable[i]
                recomputed == latestBlock' - row.blockNumber + 1
                nextStatus == IF recomputed >= minConfirmations THEN "confirmed" ELSE "pending"
            IN IF /\ row.status = "pending"
                  /\ row.blockNumber <= latestBlock'
                  /\ (recomputed # row.confirmations \/ nextStatus # row.status)
                 THEN chainDepositsTable'[i] = [row EXCEPT !.confirmations = recomputed,
                                                           !.status = nextStatus,
                                                           !.updatedAt = clock]
                 ELSE chainDepositsTable'[i] = row]_vars

\* C24 witness: one sweep wrote a record and left a pending record at or below
\* its head, whose values had not changed, with its earlier updated_at.
SweptOneSkippedOneWitness ==
  /\ pc = "swept"
  /\ \E i \in DOMAIN chainDepositsTable :
       /\ chainDepositsTable[i].status = "pending"
       /\ chainDepositsTable[i].blockNumber <= latestBlock
       /\ chainDepositsTable[i].updatedAt < clock
  /\ \E i \in DOMAIN chainDepositsTable :
       /\ chainDepositsTable[i].id \in cycleStart.pending
       /\ chainDepositsTable[i].updatedAt = clock
       /\ chainDepositsTable[i].observedAt < clock

\* The columns of a deposit record other than confirmations, status and updated_at.
identityColumns ==
  {"id", "chainId", "network", "tokenSymbol", "tokenAddress", "fromAddress", "toAddress",
   "txHash", "logIndex", "blockNumber", "amountRaw", "amountDecimal", "observedAt"}

\* C25: upsertDeposit of an input whose (txHash, logIndex) is on record adds no
\* record, leaves every other record as it was, and leaves every column of the
\* record other than confirmations, status and updated_at as it was, whatever
\* the input carries for them; an input not on record adds one record.
ReobservedKeepsIdentity ==
  [][(pc' = "upserted" /\ Len(logs') = 1) =>
       IF \E i \in DOMAIN chainDepositsTable :
            /\ chainDepositsTable[i].txHash = logs'[1].txHash
            /\ chainDepositsTable[i].logIndex = logs'[1].logIndex
         THEN /\ Len(chainDepositsTable') = Len(chainDepositsTable)
              /\ \A i \in DOMAIN chainDepositsTable :
                   IF /\ chainDepositsTable[i].txHash = logs'[1].txHash
                      /\ chainDepositsTable[i].logIndex = logs'[1].logIndex
                     THEN /\ DOMAIN chainDepositsTable'[i] = DOMAIN chainDepositsTable[i]
                          /\ \A column \in identityColumns :
                               chainDepositsTable'[i][column] = chainDepositsTable[i][column]
                     ELSE chainDepositsTable'[i] = chainDepositsTable[i]
         ELSE Len(chainDepositsTable') = Len(chainDepositsTable) + 1]_vars

\* C25 witness: a record was re-observed, at a later time, by an input with
\* another block, token, amount and addresses than the record's.
ReobservedDifferentWitness ==
  /\ pc = "upserted"
  /\ \E i \in DOMAIN chainDepositsTable :
       /\ chainDepositsTable[i].txHash = logs[1].txHash
       /\ chainDepositsTable[i].logIndex = logs[1].logIndex
       /\ chainDepositsTable[i].blockNumber # logs[1].blockNumber
       /\ chainDepositsTable[i].tokenSymbol # logs[1].token
       /\ chainDepositsTable[i].amountRaw # toString(logs[1].amountRaw)
       /\ chainDepositsTable[i].fromAddress # logs[1].fromAddress
       /\ chainDepositsTable[i].toAddress # logs[1].toAddress
       /\ chainDepositsTable[i].updatedAt > chainDepositsTable[i].observedAt

StripeIds == {"stripe_cs_1", "stripe_pi_pi_1"}

\* Slot r runs a Stripe handler that stands at this await and leaves it in the step.
stripeStep(r, at) ==
  /\ handlers[r].pc = at
  /\ handlers[r].event.kind = "stripe"
  /\ handlers'[r] # handlers[r]

\* C26: for both Stripe event shapes, a handler that finds a payment record
\* with its canonical id ends without changing payments, balances or ledger; a
\* handler that finds none and runs to its end inserts exactly one payment
\* record, with status succeeded, and appends exactly one ledger entry with
\* delta = creditsToBuy and the canonical id as reference; once deliveries of
\* an id have returned and none has thrown or is in flight, the id has exactly
\* one payment record and one ledger entry.
StripeRecordsOnce ==
  /\ [][\A r \in Slots :
          LET event == handlers[r].event
              id == providerPaymentId(event)
              creditsToBuy == Number(event.creditsToBuy).value
          IN /\ stripeStep(r, "select") =>
                  /\ UNCHANGED <<paymentsTable, usersTable, creditLedgerTable>>
                  /\ IF paymentRows(id) # {} THEN handlers'[r].pc = "idle"
                     ELSE handlers'[r].pc \in {"insert", "idle"}
             /\ (stripeStep(r, "insert") /\ handlers'[r].pc # "idle") =>
                  /\ paymentRows(id) = {}
                  /\ Len(paymentsTable') = Len(paymentsTable) + 1
                  /\ SubSeq(paymentsTable', 1, Len(paymentsTable)) = paymentsTable
                  /\ paymentsTable'[Len(paymentsTable')].providerPaymentId = id
                  /\ paymentsTable'[Len(paymentsTable')].status = "succeeded"
                  /\ paymentsTable'[Len(paymentsTable')].creditsPurchased = creditsToBuy
                  /\ paymentsTable'[Len(paymentsTable')].userId = event.userId
                  /\ UNCHANGED <<usersTable, creditLedgerTable>>
             /\ (stripeStep(r, "grantUser") /\ handlers'[r].pc # "idle") =>
                  /\ usersTable' = [usersTable EXCEPT ![event.userId] = @ + creditsToBuy]
                  /\ UNCHANGED <<paymentsTable, creditLedgerTable>>
             /\ (stripeStep(r, "grantLedger") /\ seen' # seen) =>
                  /\ Len(creditLedgerTable') = Len(creditLedgerTable) + 1
                  /\ SubSeq(creditLedgerTable', 1, Len(creditLedgerTable)) = creditLedgerTable
                  /\ creditLedgerTable'[Len(creditLedgerTable')].deltaCredits = creditsToBuy
                  /\ creditLedgerTable'[Len(creditLedgerTable')].referenceId = id
                  /\ creditLedgerTable'[Len(creditLedgerTable')].userId = event.userId
                  /\ UNCHANGED <<paymentsTable, usersTable>>]_vars
  /\ [](\A id \in StripeIds :
          (Len(seen[id]) > 0 /\ ~failed[id] /\ inFlight(id) = 0) =>
            /\ Cardinality(paymentRows(id)) = 1
            /\ Cardinality(ledgerEntries(id)) = 1
            /\ \A i \in ledgerEntries(id) : creditLedgerTable[i].deltaCredits = seen[id][1].credits)

\* C26 witness: an event of each shape was delivered twice to the end; each id
\* has its one payment record and its one ledger entry.
BothShapesRedeliveredWitness ==
  \A id \in StripeIds :
    /\ Len(seen[id]) = 2
    /\ ~failed[id]
    /\ Cardinality(paymentRows(id)) = 1
    /\ Cardinality(ledgerEntries(id)) = 1

\* C27: a USDT handler that finds a payment record with its canonical id goes
\* to the update and nowhere else; the update changes, of that record, nothing
\* but status, raw payload and updatedAt, whatever user, amount and currency the
\* payload names, leaves every other payment record as it was, and neither the
\* select nor the update changes a balance or the ledger.
UsdtUpdateKeepsRecord ==
  [][\A r \in Slots :
       LET id == providerPaymentId(handlers[r].event)
       IN /\ (/\ handlers[r].pc = "select"
              /\ handlers[r].event.kind = "usdt"
              /\ handlers'[r] # handlers[r]
              /\ paymentRows(id) # {})
               => /\ handlers'[r].pc \in {"update", "idle"}
                  /\ seen' = seen
                  /\ UNCHANGED <<paymentsTable, usersTable, creditLedgerTable>>
          /\ (handlers[r].pc = "update" /\ handlers'[r] # handlers[r])
               => /\ handlers'[r].pc = "idle"
                  /\ UNCHANGED <<usersTable, creditLedgerTable>>
                  /\ Len(paymentsTable') = Len(paymentsTable)
                  /\ \A i \in DOMAIN paymentsTable :
                       IF paymentsTable[i].providerPaymentId = id
                         THEN /\ DOMAIN paymentsTable'[i] = DOMAIN paymentsTable[i]
                              /\ \A column \in DOMAIN paymentsTable[i]
                                                 \ {"status", "rawPayloadJson", "updatedAt"} :
                                   paymentsTable'[i][column] = paymentsTable[i][column]
                         ELSE paymentsTable'[i] = paymentsTable[i]]_vars

\* C27 witness: a second webhook of the transaction ran to its end with a
\* payload naming another user, amount and currency than the record holds.
ForeignPayloadUpdatedWitness ==
  /\ Len(seen["usdt_tx1"]) = 2
  /\ \E i \in paymentRows("usdt_tx1") :
       /\ paymentsTable[i].rawPayloadJson.userId # paymentsTable[i].userId
       /\ paymentsTable[i].rawPayloadJson.amountMinor # paymentsTable[i].amountMinor
       /\ paymentsTable[i].rawPayloadJson.currency # paymentsTable[i].currency
       /\ paymentsTable[i].rawPayloadJson.amountMinor \div 100 # paymentsTable[i].creditsPurchased
       /\ paymentsTable[i].status = "succeeded"
       /\ ledgerEntries("usdt_tx1") = {}

\* floor(amountMinor / 100) for an amount that is not negative.
floorOfHundredth(amountMinor) ==
  CHOOSE q \in 0..amountMinor : 100 * q <= amountMinor /\ amountMinor < 100 * (q + 1)

\* Slot r runs a USDT handler that stands at this await and goes on from it
\* (to its next await, or to its end) without throwing.
usdtStep(r, at) ==
  /\ handlers[r].pc = at
  /\ handlers[r].event.kind = "usdt"
  /\ handlers'[r] # handlers[r]
  /\ (handlers'[r].pc # "idle" \/ seen' # seen)

\* C28: the payment record a USDT handler inserts stores floor(amountMinor / 100)
\* as creditsPurchased; for a settled payload with credits above 0 the balance
\* increment and the ledger delta are that same number; for a settled payload
\* with credits 0 the record is inserted as succeeded and the handler ends
\* there; a record with creditsPurchased 0 never has a ledger entry.
UsdtCreditsFloor ==
  /\ [][\A r \in Slots :
          LET payload == handlers[r].event
              id == providerPaymentId(payload)
              credits == floorOfHundredth(payload.amountMinor)
              settled == payload.status = "confirmed"
                           /\ payload.confirmations >= usdtConfirmationsRequired
          IN /\ usdtStep(r, "insert") =>
                  /\ paymentsTable' = Append(paymentsTable, paymentsTable'[Len(paymentsTable')])
                  /\ paymentsTable'[Len(paymentsTable')].providerPaymentId = id
                  /\ paymentsTable'[Len(paymentsTable')].creditsPurchased = credits
                  /\ settled => paymentsTable'[Len(paymentsTable')].status = "succeeded"
                  /\ UNCHANGED <<usersTable, creditLedgerTable>>
                  /\ IF settled /\ credits > 0
                       THEN handlers'[r].pc = "grantUser"
                       ELSE handlers'[r].pc = "idle"
             /\ usdtStep(r, "grantUser") =>
                  /\ settled /\ credits > 0
                  /\ usersTable' = [usersTable EXCEPT ![payload.userId] = @ + credits]
                  /\ UNCHANGED <<paymentsTable, creditLedgerTable>>
             /\ usdtStep(r, "grantLedger") =>
                  /\ creditLedgerTable' = Append(creditLedgerTable,
                                                 creditLedgerTable'[Len(creditLedgerTable')])
                  /\ creditLedgerTable'[Len(creditLedgerTable')].deltaCredits = credits
                  /\ creditLedgerTable'[Len(creditLedgerTable')].referenceId = id
                  /\ \A i \in paymentRows(id) : paymentsTable[i].creditsPurchased = credits
                  /\ UNCHANGED <<paymentsTable, usersTable>>]_vars
  /\ [](\A i \in DOMAIN paymentsTable :
          (paymentsTable[i].provider = "usdt" /\ paymentsTable[i].creditsPurchased = 0)
            => ledgerEntries(paymentsTable[i].providerPaymentId) = {})

\* C28 witness: a settled payload of 50 minor units ran to its end: its record
\* is succeeded with creditsPurchased 0, and balance and ledger are as before.
ZeroCreditsSucceededWitness ==
  /\ Len(seen["usdt_tx1"]) = 1
  /\ seen["usdt_tx1"][1].settled
  /\ inFlight("usdt_tx1") = 0
  /\ \E i \in paymentRows("usdt_tx1") :
       /\ paymentsTable[i].amountMinor = 50
       /\ paymentsTable[i].status = "succeeded"
       /\ paymentsTable[i].creditsPurchased = 0
  /\ creditLedgerTable = <<>>
  /\ usersTable["u1"] = initialUserCredits

\* An event C29 lists: of another type than the two handled, or of one of them
\* with no userId in its metadata or a creditsToBuy that is NaN, infinite, zero
\* or negative.
ignorable(event) ==
  \/ event.type \notin {"checkout.session.completed", "payment_intent.succeeded"}
  \/ event.userId = ""
  \/ Number(event.creditsToBuy).nan
  \/ Number(event.creditsToBuy).infinite
  \/ Number(event.creditsToBuy).value <= 0

\* C29: handleStripeEvent called with such an event returns before its first
\* storage statement: neither the call nor the response that follows changes
\* payments, balances or ledger, and the event never reaches the select.
InvalidStripeEventIgnored ==
  /\ [][\A r \in Slots :
          /\ (/\ endpoint = "/api/payments/stripe/webhook"
              /\ handlers[r].pc = "idle"
              /\ handlers'[r].pc # "idle"
              /\ ignorable(handlers'[r].event))
               => /\ handlers'[r].pc = "ignored"
                  /\ UNCHANGED <<paymentsTable, usersTable, creditLedgerTable, seen, failed>>
          /\ (handlers[r].pc = "ignored" /\ handlers'[r] # handlers[r])
               => /\ handlers'[r].pc = "idle"
                  /\ UNCHANGED <<paymentsTable, usersTable, creditLedgerTable, seen, failed>>]_vars
  /\ [](\A r \in Slots :
          (handlers[r].pc \in HandlerSteps /\ handlers[r].event.kind = "stripe")
            => ~ignorable(handlers[r].event))

\* C29 witness: with a payment and its grant on record, an event of a handled
\* type with creditsToBuy Infinity was ignored while an event of another type
\* is being ignored in the other slot.
IgnoredBothKindsWitness ==
  /\ Len(paymentsTable) = 1
  /\ Len(creditLedgerTable) = 1
  /\ \E r \in Slots :
       /\ handlers[r].pc = "ignored"
       /\ handlers[r].event.type = "payment_intent.succeeded"
       /\ handlers[r].event.creditsToBuy = "Infinity"
  /\ \E r \in Slots :
       /\ handlers[r].pc = "ignored"
       /\ handlers[r].event.type = "charge.refunded"

\* C30: no step of the chain worker changes a balance, the credit ledger, the
\* payment records or the video tasks; of the worker_state table it writes the
\* cursor row only.
ScannerNeverGrants ==
  /\ [][UNCHANGED <<usersTable, creditLedgerTable, paymentsTable, videoTasksTable>>]_vars
  /\ [](DOMAIN workerStateTable \subseteq {WORKER_CURSOR_KEY})

\* C30 witness: cycles have advanced the cursor and moved a deposit from
\* pending to confirmed while a deposit of the other token is on record;
\* the balance is the initial one, and ledger and payments are empty.
ConfirmedWithoutGrantWitness ==
  /\ cycleReturned
  /\ cursor # NULL
  /\ \E i \in DOMAIN chainDepositsTable :
       /\ chainDepositsTable[i].id \in cycleStart.pending
       /\ chainDepositsTable[i].status = "confirmed"
       /\ chainDepositsTable[i].tokenSymbol = "USDT"
  /\ \E i \in DOMAIN chainDepositsTable : chainDepositsTable[i].tokenSymbol = "USDC"
  /\ usersTable = [u \in {"u1"} |-> initialUserCredits]
  /\ creditLedgerTable = <<>>
  /\ paymentsTable = <<>>

\* ================================================================ API keys
\* Rows of api_keys the model creates.
MaxKeys == 3

\* Every worker action leaves the API server's state alone and the other way round.
serverRest == <<workerVars, payVars>>

\* The names a rotate request carries: `undefined` is "undefined" here; the
\* requests of the model carry a blank name or a name.
RotateNames == {" ", "deploy"}

\* name?.trim() || `${existingApiKey.name} (rotated)`
nextName(name, existingName) ==
  IF name = "undefined" \/ trim(name) = "" THEN existingName \o " (rotated)" ELSE trim(name)

\* The api_keys row of a key: status "active" on insert. `replaces` is history:
\* the key whose rotation inserted this row, 0 for a key created directly.
apiKeyRow(table, userId, name, replaces) ==
  [id |-> Len(table) + 1, userId |-> userId, name |-> name, status |-> "active",
   replaces |-> replaces]

\* select().from(apiKeysTable).where(userId = ..., id = ...).limit(1): the row's id, 0 if none
existingApiKey(table, userId, keyId) ==
  IF keyId \in DOMAIN table /\ table[keyId].userId = userId THEN keyId ELSE 0

\* update api_keys set status = 'revoked' where user_id = ... and id = ...
revokeKey(table, userId, keyId) ==
  [i \in DOMAIN table |->
     IF table[i].userId = userId /\ table[i].id = keyId
       THEN [table[i] EXCEPT !.status = "revoked"] ELSE table[i]]

\* apiKeyService.create called by POST /api/keys.
apiKeyCreate ==
  /\ Len(apiKeysTable) < MaxKeys
  /\ \E userId \in {"u1"} :
       apiKeysTable' = Append(apiKeysTable, apiKeyRow(apiKeysTable, userId, "ci", 0))
  /\ UNCHANGED <<serverRest, rotations, passwordResetTokensTable, passwordHashes, resets,
                 creates, timers>>

\* apiKeyService.revoke called by DELETE /api/keys/:keyId.
apiKeyRevoke ==
  /\ \E userId \in {"u1"}, keyId \in 1..MaxKeys :
       apiKeysTable' = revokeKey(apiKeysTable, userId, keyId)
  /\ UNCHANGED <<serverRest, rotations, passwordResetTokensTable, passwordHashes, resets,
                 creates, timers>>

\* apiKeyService.rotate(userId, keyId, name) is called: it awaits the select.
rotate(s) ==
  /\ rotations[s].pc = "idle"
  /\ \E userId \in {"u1"}, keyId \in 1..MaxKeys, name \in RotateNames :
       rotations' = [rotations EXCEPT ![s] =
                       [pc |-> "select", userId |-> userId, keyId |-> keyId, name |-> name]]
  /\ UNCHANGED <<serverRest, apiKeysTable, passwordResetTokensTable, passwordHashes, resets,
                 creates, timers>>

\* The select resolves: null is returned for no row or a row that is not
\* active; otherwise rotate awaits this.create(userId, nextName).
rotateSelect(s) ==
  /\ rotations[s].pc = "select"
  /\ LET call == rotations[s]
         existing == existingApiKey(apiKeysTable, call.userId, call.keyId)
     IN rotations' = [rotations EXCEPT ![s] =
          IF existing = 0 \/ apiKeysTable[existing].status # "active"
            THEN [pc |-> "returned", result |-> NULL]
            ELSE [pc |-> "create", userId |-> call.userId, keyId |-> call.keyId,
                  name |-> nextName(call.name, apiKeysTable[existing].name)]]
  /\ UNCHANGED <<serverRest, apiKeysTable, passwordResetTokensTable, passwordHashes, resets,
                 creates, timers>>

\* await this.create(userId, nextName): the replacement row is inserted, active.
rotateCreate(s) ==
  /\ rotations[s].pc = "create"
  /\ Len(apiKeysTable) < MaxKeys
  /\ LET call == rotations[s]
         row == apiKeyRow(apiKeysTable, call.userId, call.name, call.keyId)
     IN /\ apiKeysTable' = Append(apiKeysTable, row)
        /\ rotations' = [rotations EXCEPT ![s] =
                           [pc |-> "revoke", userId |-> call.userId, keyId |-> call.keyId,
                            rotatedApiKey |-> row.id]]
  /\ UNCHANGED <<serverRest, passwordResetTokensTable, passwordHashes, resets, creates, timers>>

\* await this.revoke(userId, keyId); return rotatedApiKey
rotateRevoke(s) ==
  /\ rotations[s].pc = "revoke"
  /\ apiKeysTable' = revokeKey(apiKeysTable, rotations[s].userId, rotations[s].keyId)
  /\ rotations' = [rotations EXCEPT ![s] =
                     [pc |-> "returned", result |-> rotations[s].rotatedApiKey]]
  /\ UNCHANGED <<serverRest, passwordResetTokensTable, passwordHashes, resets, creates, timers>>

\* An await of rotate rejects (a storage error): the statement has no effect and
\* the request ends with an error.
rotateThrows(s) ==
  /\ rotations[s].pc \in {"select", "create", "revoke"}
  /\ rotations' = [rotations EXCEPT ![s] = [pc |-> "threw", at |-> rotations[s].pc]]
  /\ UNCHANGED <<serverRest, apiKeysTable, passwordResetTokensTable, passwordHashes, resets,
                 creates, timers>>

\* The route answers: 404 for null, 201 with the key, or the server's error response.
rotateResponds(s) ==
  /\ rotations[s].pc \in {"returned", "threw"}
  /\ rotations' = [rotations EXCEPT ![s] = idleCall]
  /\ UNCHANGED <<serverRest, apiKeysTable, passwordResetTokensTable, passwordHashes, resets,
                 creates, timers>>

KeyInit == WorkerAtRest /\ PayAtRest

KeyNext ==
  \/ apiKeyCreate
  \/ apiKeyRevoke
  \/ \E s \in Slots :
       \/ rotate(s)
       \/ rotateSelect(s)
       \/ rotateCreate(s)
       \/ rotateRevoke(s)
       \/ rotateThrows(s)
       \/ rotateResponds(s)

KeySpec == KeyInit /\ [][KeyNext]_vars

\* C31: API key rotation is atomic: in no reachable state is a key that a
\* rotation inserted stored as active while the key it replaces is still active.
RotationIsAtomic ==
  \A i \in DOMAIN apiKeysTable :
    (apiKeysTable[i].replaces # 0 /\ apiKeysTable[i].status = "active")
      => apiKeysTable[apiKeysTable[i].replaces].status # "active"

\* The second half of the claim's case: the revoke of a rotation has thrown and
\* the request is over, with both keys active.
RotationLeftBothActive ==
  \E s \in Slots, i \in DOMAIN apiKeysTable :
    /\ rotations[s] = [pc |-> "threw", at |-> "revoke"]
    /\ apiKeysTable[i].replaces # 0
    /\ apiKeysTable[i].status = "active"
    /\ apiKeysTable[apiKeysTable[i].replaces].status = "active"

\* Handler r stands at the insert of a payment row whose canonical id another
\* handler has inserted since r's select found none: the insert can only reject
\* with the unique-index violation.
insertMustReject(r) ==
  /\ handlers[r].pc = "insert"
  /\ violatesUnique(paymentsTable, providerPaymentId(handlers[r].event))

\* At most one payment row and at most one ledger entry per canonical id.
recordedOnce ==
  \A id \in CanonicalIds :
    Cardinality(paymentRows(id)) <= 1 /\ Cardinality(ledgerEntries(id)) <= 1

\* C32: two handlers of one canonical payment id that both read "no existing
\* payment" before either inserts leave at most one payment row and at most one
\* ledger entry for the id, and neither ends in an error: no handler whose
\* insert must reject on the unique index is left to throw.
ConcurrentDuplicatesSafe ==
  /\ []recordedOnce
  /\ [][\A r \in Slots : ~(insertMustReject(r) /\ handlers'[r].pc = "idle")]_vars

\* C33: once a USDT payment row has status succeeded, no later webhook for the
\* same transaction changes its status away from succeeded.
SucceededStaysSucceeded ==
  [][\A i \in DOMAIN paymentsTable :
       (paymentsTable[i].provider = "usdt" /\ paymentsTable[i].status = "succeeded")
         => paymentsTable'[i].status = "succeeded"]_vars

\* ============================================= video tasks under concurrency
\* The balance account "u1" has when the requests of this part arrive: what is
\* left of the initial credits after twenty tasks of the minimum duration.
spentDownCredits ==
  initialUserCredits - 20 * calculateVideoTaskCredits(MINIMUM_VIDEO_DURATION_SECONDS)

\* Two create requests at once, the Stripe webhook (until one payment is
\* recorded) and sign-ups, for an account that can pay for one short task but
\* not for a long one.
TaskInit ==
  /\ WorkerAtRest
  /\ usersTable = [u \in RegisterUserIds |-> spentDownCredits]
  /\ paymentsTable = <<>>
  /\ creditLedgerTable = <<>>
  /\ handlers = [r \in Slots |-> idleHandler]
  /\ endpoint = "/api/payments/stripe/webhook"
  /\ seen = [id \in CanonicalIds |-> <<>>]
  /\ failed = [id \in CanonicalIds |-> FALSE]
  /\ usdtWebhookSecret = ""
  /\ videoTasksTable = <<>>
  /\ AccountInit

TaskNext ==
  \/ register
  \/ createUserFromGoogleProfile
  \/ \E s \in Slots :
       \/ create(s)
       \/ createSelect(s)
       \/ createUpdate(s)
       \/ createInsertTask(s)
       \/ createInsertLedger(s)
       \/ createCommit(s)
       \/ createGetById(s)
       \/ createThrows(s)
       \/ createResponds(s)
  \/ \E r \in {"r1"} :
       \/ paymentsTable = <<>> /\ handleStripeEvent(r)
       \/ sendResponse(r)
       \/ selectExisting(r)
       \/ insertPayment(r)
       \/ grantUser(r)
       \/ grantLedger(r)
       \/ handlerThrows(r)

TaskSpec == TaskInit /\ [][TaskNext]_vars

\* No grant has been cut short between its balance update and its ledger insert.
noGrantCutShort == \A id \in CanonicalIds : ~failed[id]

\* The balance an account starts with in TaskSpec: what TaskInit gives "u1",
\* the initial credits for an account that signs up.
initialBalance(userId) == IF userId \in RegisterUserIds THEN spentDownCredits ELSE initialUserCredits

\* C34: no credit update is lost when videoTaskService.create interleaves with
\* another create or with grantCredits for the same user: once the calls are
\* over, the balance is the initial balance plus the deltas of the ledger
\* entries they appended; and every entry a create appends carries as
\* balanceAfter the balance that applying its delta gave.
NoLostCreditUpdate ==
  /\ []((serverIdle /\ noGrantCutShort) =>
          \A userId \in DOMAIN usersTable :
            usersTable[userId] = initialBalance(userId) + sumDeltas(creditLedgerTable, userId))
  /\ [][\A s \in Slots :
          (creates[s].pc = "commit" /\ creates'[s].pc = "getById") =>
            LET entry == creditLedgerTable'[Len(creditLedgerTable')]
            IN entry.balanceAfter = usersTable[entry.userId] + entry.deltaCredits]_vars

\* C35: a user's credit balance is never negative, in any interleaving of
\* sign-ups, credit grants and video task creations.
BalanceNeverNegative == \A userId \in DOMAIN usersTable : usersTable[userId] >= 0

\* C35 witness: a create that read the balance after a grant has spent it down
\* to zero, and the other create, which read the balance after that commit, was
\* refused for insufficient credits.
SpentToZeroAndRefusedWitness ==
  \E s \in Slots, t \in Slots :
    /\ usersTable["u1"] = 0
    /\ creates[s].pc \in {"getById", "returned"}
    /\ creates[t] = [pc |-> "threw", message |-> "Insufficient API credits."]
    /\ \E i \in DOMAIN creditLedgerTable : creditLedgerTable[i].reason = "payment_stripe_succeeded"

\* The create call of slot s is refused by the callback of its transaction.
refused(s) ==
  /\ creates[s].pc = "select"
  /\ creates'[s].pc = "threw"
  /\ creates'[s].message \in {"User not found for task creation.", "Insufficient API credits."}

\* The transaction of the create call of slot s commits.
commits(s) == creates[s].pc = "commit" /\ creates'[s].pc = "getById"

\* C36: videoTaskService.create is all-or-nothing. A select that finds no user
\* or a balance below the cost (creditsPerTask + the duration clamped to
\* [4, 12]) makes the call fail, and balance, tasks, ledger and timers stay as
\* they are. A call that succeeds lowers the balance by exactly the cost,
\* inserts exactly one task, queued, and appends exactly one ledger entry with
\* delta = -cost, balanceAfter = the new balance and referenceId = the task id.
CreateAllOrNothing ==
  [][\A s \in Slots :
       /\ (creates[s].pc = "select" /\ creates'[s].pc # "select") =>
            /\ creates[s].durationSeconds \in
                 MINIMUM_VIDEO_DURATION_SECONDS..MAXIMUM_VIDEO_DURATION_SECONDS
            /\ creates[s].creditsCost = creditsPerTask + creates[s].durationSeconds
            /\ (creates[s].userId \notin DOMAIN usersTable => creates'[s].pc = "threw")
            /\ (creates[s].userId \in DOMAIN usersTable
                  /\ usersTable[creates[s].userId] < creates[s].creditsCost
                  => creates'[s].pc = "threw")
       /\ refused(s) => UNCHANGED <<usersTable, videoTasksTable, creditLedgerTable, timers>>
       /\ commits(s) =>
            LET call == creates[s]
                task == videoTasksTable'[Len(videoTasksTable')]
                entry == creditLedgerTable'[Len(creditLedgerTable')]
            IN /\ usersTable'[call.userId] = usersTable[call.userId] - call.creditsCost
               /\ Len(videoTasksTable') = Len(videoTasksTable) + 1
               /\ SubSeq(videoTasksTable', 1, Len(videoTasksTable)) = videoTasksTable
               /\ task.status = "queued" /\ task.userId = call.userId
               /\ Len(creditLedgerTable') = Len(creditLedgerTable) + 1
               /\ SubSeq(creditLedgerTable', 1, Len(creditLedgerTable)) = creditLedgerTable
               /\ entry.deltaCredits = 0 - call.creditsCost
               /\ entry.balanceAfter = usersTable'[call.userId]
               /\ entry.referenceId = task.id]_vars

\* What holds of C36 in every interleaving: the same, with the balance lowered
\* from the balance the call's select read.
CreateAllOrNothingFromRead ==
  [][\A s \in Slots :
       /\ refused(s) => UNCHANGED <<usersTable, videoTasksTable, creditLedgerTable, timers>>
       /\ commits(s) =>
            LET call == creates[s]
                task == videoTasksTable'[Len(videoTasksTable')]
                entry == creditLedgerTable'[Len(creditLedgerTable')]
            IN /\ usersTable'[call.userId] = call.nextCreditsBalance
               /\ Len(videoTasksTable') = Len(videoTasksTable) + 1
               /\ task.status = "queued" /\ task.userId = call.userId
               /\ Len(creditLedgerTable') = Len(creditLedgerTable) + 1
               /\ entry.deltaCredits = 0 - call.creditsCost
               /\ entry.balanceAfter = usersTable'[call.userId]
               /\ entry.referenceId = task.id
               /\ timers' = timers \cup enqueueTaskProgression(task.id)]_vars

\* ========================================================== password reset
\* String(n) for the small numbers that identify rows.
numeral(n) ==
  CASE n = 0 -> "0" [] n = 1 -> "1" [] n = 2 -> "2" [] n = 3 -> "3" [] n = 4 -> "4"
    [] n = 5 -> "5" [] n = 6 -> "6" [] n = 7 -> "7" [] n = 8 -> "8" [] n = 9 -> "9"

\* Rows of password_reset_tokens the model creates.
MaxTokens == 2

\* The raw token createForgotPasswordToken returns for the row it inserts at
\* position i (two random UUIDs in the source), and a token never issued.
rawTokenOf(i) == "tok" \o numeral(i)
unknownToken == "tokX"

\* createHash("sha256").update(rawToken, "utf8").digest("hex")
hashToken(rawToken) == [sha256 |-> rawToken]

\* The passwords the reset requests of the model carry.
NewPasswords == {"pwA12345", "pwB12345"}

\* select().from(passwordResetTokensTable).where(tokenHash = ...).limit(1): the row's position, 0 if none
databaseToken(table, tokenHash) ==
  IF \E i \in DOMAIN table : table[i].tokenHash = tokenHash
    THEN CHOOSE i \in DOMAIN table : table[i].tokenHash = tokenHash
    ELSE 0

\* !databaseToken || databaseToken.usedAt || databaseToken.expiresAt < now
tokenRejected(table, i, now) ==
  i = 0 \/ table[i].usedAt # NULL \/ table[i].expiresAt < now

\* authStore.createForgotPasswordToken for the e-mail of an account: the token
\* row is inserted. One tick of the model's clock is longer than
\* env.passwordResetTokenTtlMinutes, so a token expires at the tick after its
\* own. `redeemed` is history: the resetPassword calls that returned true for it.
createForgotPasswordToken ==
  /\ Len(passwordResetTokensTable) < MaxTokens
  /\ \E userId \in DOMAIN usersTable :
       passwordResetTokensTable' = Append(passwordResetTokensTable,
         [id |-> Len(passwordResetTokensTable) + 1, userId |-> userId,
          tokenHash |-> hashToken(rawTokenOf(Len(passwordResetTokensTable) + 1)),
          expiresAt |-> clock, usedAt |-> NULL, createdAt |-> clock, redeemed |-> 0])
  /\ UNCHANGED <<workerVars, payVars, apiKeysTable, rotations, passwordHashes, resets, creates,
                 timers>>

\* authStore.resetPassword(input) is called: the hash and `now` are computed
\* and the select is awaited.
resetPassword(s) ==
  /\ resets[s].pc = "idle"
  /\ \E token \in {rawTokenOf(i) : i \in 1..MaxTokens} \cup {unknownToken},
        password \in NewPasswords :
       resets' = [resets EXCEPT ![s] =
                    [pc |-> "select", tokenHash |-> hashToken(token), password |-> password,
                     now |-> clock]]
  /\ UNCHANGED <<workerVars, payVars, apiKeysTable, rotations, passwordResetTokensTable,
                 passwordHashes, creates, timers>>

\* The select resolves: false is returned for no token, a used token or an
\* expired one; otherwise the transaction begins and awaits the users update.
resetSelect(s) ==
  /\ resets[s].pc = "select"
  /\ LET call == resets[s]
         i == databaseToken(passwordResetTokensTable, call.tokenHash)
     IN resets' = [resets EXCEPT ![s] =
          IF tokenRejected(passwordResetTokensTable, i, call.now)
            THEN [pc |-> "returned", result |-> FALSE]
            ELSE [pc |-> "updateUser", tokenId |-> i,
                  userId |-> passwordResetTokensTable[i].userId,
                  password |-> call.password, now |-> call.now]]
  /\ UNCHANGED <<workerVars, payVars, apiKeysTable, rotations, passwordResetTokensTable,
                 passwordHashes, creates, timers>>

\* tx.update(usersTable).set({passwordHash: await Bun.password.hash(input.password)}):
\* the statement waits while another transaction holds the row.
resetUpdateUser(s) ==
  /\ resets[s].pc = "updateUser"
  /\ ~rowLocked(resets[s].userId)
  /\ resets' = [resets EXCEPT ![s].pc = "updateToken"]
  /\ UNCHANGED <<workerVars, payVars, apiKeysTable, rotations, passwordResetTokensTable,
                 passwordHashes, creates, timers>>

\* tx.update(passwordResetTokensTable).set({usedAt: now}); the callback returns
resetUpdateToken(s) ==
  /\ resets[s].pc = "updateToken"
  /\ resets' = [resets EXCEPT ![s].pc = "commit"]
  /\ UNCHANGED <<workerVars, payVars, apiKeysTable, rotations, passwordResetTokensTable,
                 passwordHashes, creates, timers>>

\* The transaction commits: password hash and usedAt become visible together,
\* and resetPassword returns true.
resetCommit(s) ==
  /\ resets[s].pc = "commit"
  /\ LET call == resets[s]
     IN /\ passwordHashes' = [passwordHashes EXCEPT ![call.userId] = hashPassword(call.password)]
        /\ passwordResetTokensTable' =
             [passwordResetTokensTable EXCEPT ![call.tokenId] =
                [@ EXCEPT !.usedAt = call.now, !.redeemed = @ + 1]]
        /\ resets' = [resets EXCEPT ![s] = [pc |-> "returned", result |-> TRUE]]
  /\ UNCHANGED <<workerVars, payVars, apiKeysTable, rotations, creates, timers>>

\* An await of resetPassword rejects with a storage error: inside the
\* transaction it rolls back.
resetThrows(s) ==
  /\ resets[s].pc \in {"select", "updateUser", "updateToken", "commit"}
  /\ resets' = [resets EXCEPT ![s] = [pc |-> "threw"]]
  /\ UNCHANGED <<workerVars, payVars, apiKeysTable, rotations, passwordResetTokensTable,
                 passwordHashes, creates, timers>>

\* POST /api/auth/reset-password answers: {success: true}, 400 for false, or
\* the server's error response.
resetResponds(s) ==
  /\ resets[s].pc \in {"returned", "threw"}
  /\ resets' = [resets EXCEPT ![s] = idleCall]
  /\ UNCHANGED <<workerVars, payVars, apiKeysTable, rotations, passwordResetTokensTable,
                 passwordHashes, creates, timers>>

ResetInit == WorkerAtRest /\ PayAtRest

ResetNext ==
  \/ tick
  \/ createForgotPasswordToken
  \/ \E s \in Slots :
       \/ resetPassword(s)
       \/ resetSelect(s)
       \/ resetUpdateUser(s)
       \/ resetUpdateToken(s)
       \/ resetCommit(s)
       \/ resetThrows(s)
       \/ resetResponds(s)

ResetSpec == ResetInit /\ [][ResetNext]_vars

\* C37: a password reset token is single-use. Over every interleaving of calls
\* with the same token at most one resetPassword call returns true and changes
\* the password; a call whose select finds the token used, expired or unknown
\* returns false, and nothing is changed.
ResetTokenSingleUse ==
  /\ [](\A i \in DOMAIN passwordResetTokensTable : passwordResetTokensTable[i].redeemed <= 1)
  /\ [][\A s \in Slots :
          (resets[s].pc = "select" /\ resets'[s].pc # "select"
             /\ tokenRejected(passwordResetTokensTable,
                              databaseToken(passwordResetTokensTable, resets[s].tokenHash),
                              resets[s].now))
            => /\ resets'[s].pc \in {"returned", "threw"}
               /\ resets'[s].pc = "returned" => resets'[s].result = FALSE
               /\ UNCHANGED <<passwordHashes, passwordResetTokensTable>>]_vars

\* ===================================================== task status progression
\* getTaskDemoVideoUrl(taskId): the URL of one of the reference videos.
getTaskDemoVideoUrl(taskId) == "https://videos.example/ref_" \o numeral(taskId % 2)

\* The event loop runs the callbacks of one enqueueTaskProgression call in the
\* order of their delays: the later one is not run while the earlier one waits.
due(t) ==
  /\ t.state = "scheduled"
  /\ ~\E u \in timers : u.taskId = t.taskId /\ u.state = "scheduled" /\ u.delay < t.delay

\* update video_tasks set ... where id = taskId, as the callback of timer t sends it.
progressUpdate(table, t) ==
  [i \in DOMAIN table |->
     IF table[i].id # t.taskId THEN table[i]
     ELSE IF t.status = "processing"
       THEN [table[i] EXCEPT !.status = "processing", !.updatedAt = clock]
       ELSE [table[i] EXCEPT !.status = "succeeded",
                             !.providerTaskId = "seedance_" \o numeral(t.taskId),
                             !.outputVideoUrl = getTaskDemoVideoUrl(t.taskId),
                             !.updatedAt = clock,
                             !.completedAt = clock]]

\* A timer runs its callback: the update is sent to the database and awaited.
timerFires ==
  /\ \E t \in timers :
       /\ due(t)
       /\ timers' = (timers \ {t}) \cup {[t EXCEPT !.state = "sent"]}
  /\ UNCHANGED <<workerVars, payVars, apiKeysTable, rotations, passwordResetTokensTable,
                 passwordHashes, resets, creates>>

\* The database applies an update that a callback has sent. Updates sent by
\* different callbacks travel on the connections of the pool and are applied
\* in either order.
timerUpdate ==
  /\ \E t \in timers :
       /\ t.state = "sent"
       /\ videoTasksTable' = progressUpdate(videoTasksTable, t)
       /\ timers' = timers \ {t}
  /\ UNCHANGED <<workerVars, usersTable, paymentsTable, creditLedgerTable, handlers, endpoint,
                 seen, failed, usdtWebhookSecret, apiKeysTable, rotations,
                 passwordResetTokensTable, passwordHashes, resets, creates>>

ProgressInit == WorkerAtRest /\ PayAtRest

ProgressNext ==
  \/ timerFires
  \/ timerUpdate
  \/ \E s \in {"r1"} :
       \/ create(s)
       \/ createSelect(s)
       \/ createUpdate(s)
       \/ createInsertTask(s)
       \/ createInsertLedger(s)
       \/ createCommit(s)
       \/ createGetById(s)
       \/ createThrows(s)
       \/ createResponds(s)

\* Every timer fires and every update that was sent is applied.
ProgressSpec ==
  /\ ProgressInit
  /\ [][ProgressNext]_vars
  /\ WF_vars(timerFires)
  /\ WF_vars(timerUpdate)

\* C38: a video task's status only moves forward. In whatever order the two
\* updates of enqueueTaskProgression are applied, a task that is succeeded, with
\* completedAt and outputVideoUrl set, is never set back to processing; and
\* every task created reaches succeeded.
TaskStatusOnlyForward ==
  /\ [][\A i \in DOMAIN videoTasksTable :
          (videoTasksTable[i].status = "succeeded"
             /\ videoTasksTable[i].completedAt # NULL
             /\ videoTasksTable[i].outputVideoUrl # "null")
            => videoTasksTable'[i].status # "processing"]_vars
  /\ \A k \in 1..MaxTasks :
       (Len(videoTasksTable) >= k /\ videoTasksTable[k].status = "queued") ~>
         (Len(videoTasksTable) >= k /\ videoTasksTable[k].status = "succeeded")

\* The half of C38 that holds when every timer fires and every update sent is
\* applied (the fairness of ProgressSpec): every task created is succeeded at
\* some time.
TaskReachesSucceeded ==
  \A k \in 1..MaxTasks :
    (Len(videoTasksTable) >= k /\ videoTasksTable[k].status = "queued") ~>
      (Len(videoTasksTable) >= k /\ videoTasksTable[k].status = "succeeded")
====
